---- MODULE Spec2Model ----
(***************************************************************************)
(* Chunk streaming of the voxel world: ThreadedChunkManager                *)
(* (src/world/threaded_chunk_manager.py) together with the chunk object    *)
(* it manages, ModernChunk (src/world/modern_chunk.py).                    *)
(*                                                                         *)
(* Two threads: the presentation (main) thread runs the handlers of        *)
(* src/main.py (initialize_spawn_chunks, update, set_block_at,             *)
(* render_chunks, cleanup), the background thread runs _chunk_worker.      *)
(* Each main-thread handler is one action; the worker is one action per    *)
(* queue poll of its loop.                                                 *)
(*                                                                         *)
(* Python objects with identity are encoded as follows.                    *)
(*  - A dict is a function whose DOMAIN is its key set.                    *)
(*  - None/absent is the empty sequence, a present value v is <<v>>.       *)
(*  - A chunk object is a record.  A mesh request holds a reference to a   *)
(*    chunk object: while that object is the one stored in chunks[coords]  *)
(*    the request is "live" and reads chunks[coords].blocks; once the      *)
(*    object leaves the map nobody can write it any more and the request   *)
(*    carries its final grid.                                              *)
(*  - A GPU buffer (vao) is an id into the log gpu of all buffers that     *)
(*    create_vao ever returned.                                            *)
(***************************************************************************)
EXTENDS Integers, Sequences, FiniteSets, TLC

(***************************************************************************)
(* Program constants                                                       *)
(***************************************************************************)
AIR == 0
GRASS == 1
DIRT == 2
STONE == 3
LEAVES == 6
WOOD == 7
WATER == 8
CHUNK_SIZE == 16
CHUNK_HEIGHT == 256
max_per_frame == 12
chunks_to_pregenerate == 20

(***************************************************************************)
(* Bounds of the model                                                     *)
(***************************************************************************)
\* cells of a chunk's block grid that are modelled
NumCells == 1
\* cap on mesh_request_counter
MaxMeshRequests == 2
\* cap on the number of GPU buffers ever created
MaxVaos == 3
\* number of chunks the synchronous pre-generation burst produces here
PregenCount == 1
\* cap on the length of chunk_queue
MaxQueue == 2
\* largest render distance get_chunks_in_range is called with
MaxRenderDistance == 3
\* centres get_chunks_in_range is called with: -MaxCenter..MaxCenter each way
MaxCenter == 2
\* results waiting in one completed queue when the drain step is called
MaxBacklog == 14
\* cap on the length of chunk_queue at render distance 1
MaxNearQueue == 10

\* render_distance argument the streaming manager is constructed with: the
\* smallest radius, for which the range of a player chunk is that chunk alone
ConstructedRenderDistance == 0

\* the modelled cells, as local (x, y, z)
GridCells == {<<i, 0, 0>> : i \in 0..(NumCells - 1)}
BlockTypes == {AIR, STONE}

\* world positions (x, y, z) set_block_at and get_block_at are called with:
\* the modelled cells of the chunk at the origin
EditPositions == {<<i, 0, 0>> : i \in 0..(NumCells - 1)}

\* world positions (x, z) the observer is moved to: two chunks, two apart
PlayerPositions == {<<8, 8>>, <<40, 8>>}
\* spawn position of the camera (main.py: Camera(position=(8, 40, 8)))
SpawnPosition == <<8, 8>>

(***************************************************************************)
(* Generic helpers                                                         *)
(***************************************************************************)
Abs(n) == IF n < 0 THEN -n ELSE n
Max2(a, b) == IF a >= b THEN a ELSE b
Min2(a, b) == IF a <= b THEN a ELSE b

\* d[k] = v
DictPut(d, k, v) == [x \in (DOMAIN d) \cup {k} |-> IF x = k THEN v ELSE d[x]]
\* del d[k]
DictDel(d, k) == [x \in (DOMAIN d) \ {k} |-> d[x]]

\* every order in which a Python set can be iterated
Orders(S) == {s \in [1..Cardinality(S) -> S] : \A i, j \in 1..Cardinality(S) : i # j => s[i] # s[j]}

(***************************************************************************)
(* Coordinates                                                             *)
(***************************************************************************)
\* world_to_chunk_coords / get_player_chunk: int(world // CHUNK_SIZE)
world_to_chunk_coords(p) == <<p[1] \div CHUNK_SIZE, p[2] \div CHUNK_SIZE>>

\* ThreadedChunkManager.render_distance
VARIABLE render_distance

\* get_chunks_in_range without the distance test: the whole square
chunks_in_range_square(cx, cz, R) ==
  ((cx - R)..(cx + R)) \X ((cz - R)..(cz + R))

\* get_chunks_in_range for render distance R: circular footprint
chunks_in_range(cx, cz, R) ==
  {c \in ((cx - R)..(cx + R)) \X ((cz - R)..(cz + R)) :
      (c[1] - cx) * (c[1] - cx) + (c[2] - cz) * (c[2] - cz) <= R * R}

get_chunks_in_range(cx, cz) == chunks_in_range(cx, cz, render_distance)

\* pregenerate_spawn_chunks: the coordinates generated for a burst of n
\* chunks, in generation order (x-major over the square of the radius)
PregenRadius(n) == (CHOOSE r \in 0..n : r * r <= n /\ (r + 1) * (r + 1) > n) \div 2 + 1

pregen_coords(n, sx, sz) ==
  LET r == PregenRadius(n)
      w == 2 * r + 1
      total == Min2(n, w * w)
  IN [i \in 1..total |-> <<sx - r + ((i - 1) \div w), sz - r + ((i - 1) % w)>>]


(***************************************************************************)
(* ModernChunk                                                             *)
(***************************************************************************)
\* terrain_generator.generate_chunk_terrain: deterministic in the coordinate
GenBlocks(c) == [i \in GridCells |-> STONE]

\* build_chunk_mesh_fast: the vertex array is a function of the solid
\* (neither Air nor Water) cells; it is represented by those cells
IsSolid(b) == b # AIR /\ b # WATER
build_chunk_mesh_fast(blocks) == [i \in GridCells |-> IF IsSolid(blocks[i]) THEN blocks[i] ELSE AIR]
\* len(vertices_array): zero exactly when no cell is solid
MeshLen(mesh) == Cardinality({i \in GridCells : mesh[i] # AIR})

\* fields the manager reads on a chunk (mesh_cache_valid, cached_vertices)
\* that ModernChunk.__init__ of src/world/modern_chunk.py does not set
MeshCacheFields == [mesh_cache_valid |-> FALSE, cached_vertices |-> <<>>]

\* ModernChunk.__init__ up to the choice between load and generate
NewChunk ==
  [blocks |-> [i \in GridCells |-> AIR],
   vao |-> 0,
   vertex_count |-> 0,
   needs_update |-> TRUE,
   is_generated |-> FALSE,
   is_modified |-> FALSE,
   mesh_cache_valid |-> MeshCacheFields.mesh_cache_valid,
   cached_vertices |-> MeshCacheFields.cached_vertices]

\* ModernChunk.generate_advanced_terrain
generate_advanced_terrain(chunk, c) ==
  [chunk EXCEPT !.blocks = GenBlocks(c), !.is_generated = TRUE, !.needs_update = TRUE]

\* ModernChunk.save_chunk_data: the snapshot holds a copy of the grid
save_chunk_data(chunk) ==
  [blocks |-> chunk.blocks, is_generated |-> chunk.is_generated, is_modified |-> chunk.is_modified]

\* load_chunk_data that forgets the modified flag of the snapshot
load_chunk_data_unmodified(chunk, data) ==
  [chunk EXCEPT !.blocks = data.blocks,
                !.is_generated = data.is_generated,
                !.needs_update = TRUE]

\* ModernChunk.load_chunk_data
load_chunk_data(chunk, data) ==
  [chunk EXCEPT !.blocks = data.blocks,
                !.is_generated = data.is_generated,
                !.is_modified = data.is_modified,
                !.needs_update = TRUE]

\* ModernChunk(chunk_x, chunk_z, renderer, chunk_data): data is <<>> for None
ModernChunk(c, data) ==
  IF data # <<>> THEN load_chunk_data(NewChunk, data[1])
  ELSE generate_advanced_terrain(NewChunk, c)

\* the bounds test of get_block and set_block
OutOfChunk(x, y, z) ==
  x < 0 \/ x >= CHUNK_SIZE \/ y < 0 \/ y >= CHUNK_HEIGHT \/ z < 0 \/ z >= CHUNK_SIZE

\* get_block without the bounds test: an index below zero wraps around to
\* the last cell of the axis, as numpy indexing does
get_block_wrapping(chunk, x, y, z) ==
  IF OutOfChunk(x, y, z) THEN chunk.blocks[<<NumCells - 1, 0, 0>>] ELSE chunk.blocks[<<x, y, z>>]

\* ModernChunk.get_block
get_block(chunk, x, y, z) == IF OutOfChunk(x, y, z) THEN AIR ELSE chunk.blocks[<<x, y, z>>]

\* set_block that marks the mesh dirty but not the chunk modified
set_block_unmarked(chunk, x, y, z, block_type) ==
  IF OutOfChunk(x, y, z) THEN chunk
  ELSE IF chunk.blocks[<<x, y, z>>] # block_type
  THEN [chunk EXCEPT !.blocks[<<x, y, z>>] = block_type, !.needs_update = TRUE]
  ELSE chunk

\* ModernChunk.set_block
set_block(chunk, x, y, z, block_type) ==
  IF OutOfChunk(x, y, z) THEN chunk
  ELSE IF chunk.blocks[<<x, y, z>>] # block_type
  THEN [chunk EXCEPT !.blocks[<<x, y, z>>] = block_type, !.needs_update = TRUE, !.is_modified = TRUE]
  ELSE chunk

(***************************************************************************)
(* State                                                                   *)
(***************************************************************************)
VARIABLES
  \* ThreadedChunkManager fields
  chunks,                   \* dict coords -> chunk object (active map)
  loaded_chunks,            \* set of coords: active or pending
  chunk_cache,              \* dict coords -> snapshot
  explored_chunks,          \* set of coords
  last_player_chunk,        \* <<>> (None) or <<coords>>
  player_position,          \* world (x, z)
  initial_chunks_generated, \* BOOLEAN
  should_stop,              \* BOOLEAN
  chunk_queue,              \* FIFO of operations [type, coords]
  completed_chunks,         \* FIFO of results [coords, chunk]
  chunks_to_unload,         \* FIFO of coords
  mesh_build_queue,         \* priority queue: set of requests
  completed_meshes,         \* FIFO of [coords, vertices]
  mesh_request_counter,     \* Nat
  \* renderer: every buffer create_vao returned, id -> [coords, mesh, releases]
  gpu,
  \* control state
  main_pc,                  \* "init", "running", "done"
  worker_pc,                \* "load", "mesh", "sleep", "stopped"
  \* history
  expected,                 \* coords -> grid: generated value overwritten by each successful set_block_at
  evicted,                  \* dict coords -> snapshot of the chunk fields at its last eviction
  last_update,              \* what the update() of the last step dropped and refused
  returned                  \* value returned by the last call of a method that assigns no field

vars == <<render_distance, chunks, loaded_chunks, chunk_cache, explored_chunks, last_player_chunk,
          player_position, initial_chunks_generated, should_stop, chunk_queue,
          completed_chunks, chunks_to_unload, mesh_build_queue, completed_meshes,
          mesh_request_counter, gpu, main_pc, worker_pc, expected,
          evicted, last_update, returned>>

mainVars == <<render_distance, returned, chunks, loaded_chunks, chunk_cache, last_player_chunk, player_position,
              initial_chunks_generated, should_stop, mesh_request_counter, gpu, main_pc,
              expected, evicted>>

\* the coordinates the model can touch
PlayerChunks == {world_to_chunk_coords(p) : p \in PlayerPositions}
SpawnChunk == world_to_chunk_coords(SpawnPosition)
PregenSet == {pregen_coords(PregenCount, SpawnChunk[1], SpawnChunk[2])[i] : i \in 1..PregenCount}
Coords == PregenSet \cup UNION {get_chunks_in_range(p[1], p[2]) : p \in PlayerChunks}

EmptyDict == [x \in {} |-> 0]

\* last_update after every step but an update() that dropped a mesh result
\* or refused the load request of a pending coordinate
NoUpdate == [discarded |-> {}, refused |-> {}]

\* ThreadedChunkManager.__init__ but for render_distance
ManagerInit ==
  /\ chunks = EmptyDict
  /\ loaded_chunks = {}
  /\ chunk_cache = EmptyDict
  /\ explored_chunks = {}
  /\ last_player_chunk = <<>>
  /\ player_position = <<0, 0>>
  /\ initial_chunks_generated = FALSE
  /\ should_stop = FALSE
  /\ chunk_queue = <<>>
  /\ completed_chunks = <<>>
  /\ chunks_to_unload = <<>>
  /\ mesh_build_queue = {}
  /\ completed_meshes = <<>>
  /\ mesh_request_counter = 0
  /\ gpu = <<>>
  /\ main_pc = "init"
  /\ worker_pc = "load"
  /\ expected = [c \in Coords |-> GenBlocks(c)]
  /\ evicted = EmptyDict
  /\ last_update = NoUpdate

Init ==
  /\ render_distance = ConstructedRenderDistance
  /\ returned = <<>>
  /\ ManagerInit

(***************************************************************************)
(* Background thread: _chunk_worker                                        *)
(***************************************************************************)
\* load_chunk_from_cache: <<>> for None
load_chunk_from_cache(cache, c) ==
  IF c \in DOMAIN cache THEN <<ModernChunk(c, <<cache[c]>>)>> ELSE <<>>

\* a worker whose loop ends with the exception
WorkerAfterError_exits == "stopped"

\* where the loop continues after "except Exception": time.sleep(0.1)
WorkerAfterError == "sleep"

\* while not self.should_stop: the loop ends
WorkerStop ==
  /\ worker_pc = "load"
  /\ should_stop
  /\ worker_pc' = "stopped"
  /\ last_update' = NoUpdate
  /\ UNCHANGED <<mainVars, explored_chunks, chunk_queue, completed_chunks, chunks_to_unload,
                 mesh_build_queue, completed_meshes>>

\* the exception handler's time.sleep(0.1) returns: back to the loop head
WorkerSleep ==
  /\ worker_pc = "sleep"
  /\ worker_pc' = "load"
  /\ last_update' = NoUpdate
  /\ UNCHANGED <<mainVars, explored_chunks, chunk_queue, completed_chunks, chunks_to_unload,
                 mesh_build_queue, completed_meshes>>

\* chunk_queue.get(timeout=0.1) raises queue.Empty
WorkerLoadIdle ==
  /\ worker_pc = "load"
  /\ ~should_stop
  /\ chunk_queue = <<>>
  /\ worker_pc' = "mesh"
  /\ last_update' = NoUpdate
  /\ UNCHANGED <<mainVars, explored_chunks, chunk_queue, completed_chunks, chunks_to_unload,
                 mesh_build_queue, completed_meshes>>

\* a 'load' operation whose chunk construction succeeds
WorkerLoad ==
  /\ worker_pc = "load"
  /\ ~should_stop
  /\ chunk_queue # <<>>
  /\ Head(chunk_queue).type = "load"
  /\ LET c == Head(chunk_queue).coords
         cached == load_chunk_from_cache(chunk_cache, c)
         chunk == IF cached = <<>> THEN ModernChunk(c, <<>>) ELSE cached[1]
     IN /\ explored_chunks' = IF cached = <<>> THEN explored_chunks \cup {c} ELSE explored_chunks
        /\ completed_chunks' = Append(completed_chunks,
                                      [coords |-> c, chunk |-> chunk, from_cache |-> cached # <<>>])
  /\ chunk_queue' = Tail(chunk_queue)
  /\ worker_pc' = "mesh"
  /\ last_update' = NoUpdate
  /\ UNCHANGED <<mainVars, chunks_to_unload, mesh_build_queue, completed_meshes>>

\* a 'load' operation whose chunk construction raises
WorkerLoadError ==
  /\ worker_pc = "load"
  /\ ~should_stop
  /\ chunk_queue # <<>>
  /\ Head(chunk_queue).type = "load"
  /\ chunk_queue' = Tail(chunk_queue)
  /\ worker_pc' = WorkerAfterError
  /\ last_update' = NoUpdate
  /\ UNCHANGED <<mainVars, explored_chunks, completed_chunks, chunks_to_unload,
                 mesh_build_queue, completed_meshes>>

\* an 'unload' operation is forwarded to chunks_to_unload
WorkerUnload ==
  /\ worker_pc = "load"
  /\ ~should_stop
  /\ chunk_queue # <<>>
  /\ Head(chunk_queue).type = "unload"
  /\ chunks_to_unload' = Append(chunks_to_unload, Head(chunk_queue).coords)
  /\ chunk_queue' = Tail(chunk_queue)
  /\ worker_pc' = "mesh"
  /\ last_update' = NoUpdate
  /\ UNCHANGED <<mainVars, explored_chunks, completed_chunks, mesh_build_queue, completed_meshes>>

\* PriorityQueue order: (priority, counter)
MeshBefore(a, b) ==
  \/ a.priority < b.priority
  \/ a.priority = b.priority /\ a.counter < b.counter

\* a queue that hands out requests in submission order
MeshQueueHead_fifo(q) == CHOOSE r \in q : \A o \in q : r.counter <= o.counter

MeshQueueHead(q) == CHOOSE r \in q : \A o \in q : o = r \/ MeshBefore(r, o)

\* the grid a mesh request's chunk object holds now
RequestBlocks(r) == IF r.live THEN chunks[r.coords].blocks ELSE r.blocks

\* mesh_build_queue.get(timeout=0.01) raises queue.Empty
WorkerMeshIdle ==
  /\ worker_pc = "mesh"
  /\ mesh_build_queue = {}
  /\ worker_pc' = "load"
  /\ last_update' = NoUpdate
  /\ UNCHANGED <<mainVars, explored_chunks, chunk_queue, completed_chunks, chunks_to_unload,
                 mesh_build_queue, completed_meshes>>

\* a worker that uploads the mesh it built
WorkerMesh_uploads ==
  /\ worker_pc = "mesh"
  /\ mesh_build_queue # {}
  /\ Len(gpu) < MaxVaos
  /\ LET r == MeshQueueHead(mesh_build_queue)
     IN /\ mesh_build_queue' = mesh_build_queue \ {r}
        /\ gpu' = Append(gpu, [coords |-> r.coords, mesh |-> build_chunk_mesh_fast(RequestBlocks(r)),
                               releases |-> 0])
  /\ worker_pc' = "load"
  /\ last_update' = NoUpdate
  /\ UNCHANGED <<render_distance, returned, chunks, loaded_chunks, chunk_cache, last_player_chunk,
                 player_position, initial_chunks_generated, should_stop, mesh_request_counter,
                 main_pc, expected, evicted, explored_chunks, chunk_queue, completed_chunks,
                 chunks_to_unload, completed_meshes>>

\* a mesh request is built
WorkerMesh ==
  /\ worker_pc = "mesh"
  /\ mesh_build_queue # {}
  /\ LET r == MeshQueueHead(mesh_build_queue)
     IN /\ mesh_build_queue' = mesh_build_queue \ {r}
        /\ completed_meshes' = Append(completed_meshes,
               [coords |-> r.coords, vertices |-> build_chunk_mesh_fast(RequestBlocks(r))])
  /\ worker_pc' = "load"
  /\ last_update' = NoUpdate
  /\ UNCHANGED <<mainVars, explored_chunks, chunk_queue, completed_chunks, chunks_to_unload>>

\* a mesh request whose build raises
WorkerMeshError ==
  /\ worker_pc = "mesh"
  /\ mesh_build_queue # {}
  /\ LET r == MeshQueueHead(mesh_build_queue)
     IN mesh_build_queue' = mesh_build_queue \ {r}
  /\ worker_pc' = WorkerAfterError
  /\ last_update' = NoUpdate
  /\ UNCHANGED <<mainVars, explored_chunks, chunk_queue, completed_chunks, chunks_to_unload,
                 completed_meshes>>

Worker ==
  \/ WorkerStop
  \/ WorkerSleep
  \/ WorkerLoadIdle
  \/ WorkerLoad
  \/ WorkerLoadError
  \/ WorkerUnload
  \/ WorkerMeshIdle
  \/ WorkerMesh
  \/ WorkerMeshError

(***************************************************************************)
(* Presentation thread.  A handler runs as a sequence of statements over   *)
(* the manager's fields; MainState gathers the fields a handler can        *)
(* change, each statement is an operator from state record to state        *)
(* record, and the action assigns the final record.                        *)
(***************************************************************************)
MainState ==
  [chunks |-> chunks, loaded_chunks |-> loaded_chunks, chunk_cache |-> chunk_cache,
   explored_chunks |-> explored_chunks, chunk_queue |-> chunk_queue,
   completed_chunks |-> completed_chunks, chunks_to_unload |-> chunks_to_unload,
   mesh_build_queue |-> mesh_build_queue, completed_meshes |-> completed_meshes,
   mesh_request_counter |-> mesh_request_counter, gpu |-> gpu,
   player_position |-> player_position, evicted |-> evicted,
   \* log of the handler: coordinates of the mesh results it dropped, pending
   \* coordinates whose load request it refused
   discarded |-> {}, refused |-> {},
   \* the handler reached a call that does not return before the worker acts
   waited |-> FALSE]

\* renderer.create_vao(vertices, indices) for the chunk at coords c
create_vao(st, c, mesh) ==
  [st EXCEPT !.gpu = Append(st.gpu, [coords |-> c, mesh |-> mesh, releases |-> 0])]
NewVaoId(st) == Len(st.gpu) + 1

\* vao.release(): the buffer's storage is gone, the log keeps how often it
\* was released
release_vao(st, id) ==
  [st EXCEPT !.gpu[id] = [coords |-> @.coords, mesh |-> [i \in GridCells |-> AIR],
                          releases |-> @.releases + 1]]
\* a replacement that creates the new buffer without releasing the old one
ReplaceVao_leaking(st, c, chunk, mesh) ==
  [st |-> create_vao(st, c, mesh),
   chunk |-> [chunk EXCEPT !.vao = NewVaoId(st), !.vertex_count = MeshLen(mesh)]]

\* "if chunk.vao: chunk.vao.release()" then "chunk.vao = create_vao(...)"
ReplaceVao(st, c, chunk, mesh) ==
  LET st1 == IF chunk.vao # 0 THEN release_vao(st, chunk.vao) ELSE st
  IN [st |-> create_vao(st1, c, mesh),
      chunk |-> [chunk EXCEPT !.vao = NewVaoId(st1), !.vertex_count = MeshLen(mesh)]]

\* the chunk object stored at c leaves the map: requests that reference it
\* keep its grid
DetachRequests(q, c, blocks) ==
  {IF r.coords = c /\ r.live THEN [r EXCEPT !.live = FALSE, !.blocks = blocks] ELSE r : r \in q}

\* self.chunks[c] = chunk
StoreChunk(st, c, chunk) ==
  LET q == IF c \in DOMAIN st.chunks
           THEN DetachRequests(st.mesh_build_queue, c, st.chunks[c].blocks)
           ELSE st.mesh_build_queue
  IN [st EXCEPT !.chunks = DictPut(st.chunks, c, chunk), !.mesh_build_queue = q]

\* _calculate_chunk_priority: distance from the chunk centre to the player;
\* the square of the distance orders the requests the same way
calculate_chunk_priority(c, pos) ==
  LET dx == (2 * c[1] * CHUNK_SIZE + CHUNK_SIZE) - 2 * pos[1]
      dz == (2 * c[2] * CHUNK_SIZE + CHUNK_SIZE) - 2 * pos[2]
  IN dx * dx + dz * dz

\* ModernChunk.build_mesh
build_mesh(st, c, chunk) ==
  IF ~chunk.needs_update THEN [st |-> st, chunk |-> chunk]
  ELSE LET mesh == build_chunk_mesh_fast(chunk.blocks)
           r == IF MeshLen(mesh) > 0 THEN ReplaceVao(st, c, chunk, mesh)
                ELSE [st |-> st, chunk |-> chunk]
       IN [st |-> r.st, chunk |-> [r.chunk EXCEPT !.needs_update = FALSE]]
\* a first loop body that stores the chunk without asking for its mesh
IntegrateLoaded_unrequested(st, res) == StoreChunk(st, res.coords, res.chunk)

\* process_completed_chunks, first loop body: one 'loaded' result
IntegrateLoaded(st, res) ==
  LET c == res.coords
      chunk == res.chunk
  IN IF chunk.mesh_cache_valid /\ chunk.cached_vertices # <<>>
     THEN LET mesh == chunk.cached_vertices[1]
              r == IF MeshLen(mesh) > 0 THEN ReplaceVao(st, c, chunk, mesh)
                   ELSE [st |-> st, chunk |-> chunk]
          IN StoreChunk(r.st, c, [r.chunk EXCEPT !.needs_update = FALSE])
     ELSE IF chunk.needs_update
     THEN LET st1 == StoreChunk(st, c, chunk)
              n == st.mesh_request_counter + 1
          IN [st1 EXCEPT !.mesh_request_counter = n,
                         !.mesh_build_queue = @ \cup
                            {[priority |-> calculate_chunk_priority(c, st.player_position),
                              counter |-> n, coords |-> c, live |-> TRUE,
                              blocks |-> [i \in GridCells |-> AIR]]}]
     ELSE StoreChunk(st, c, chunk)

\* a drain step without the membership test: the result of an absent
\* coordinate still gets its buffer and its loaded mark
ApplyMeshResult_unchecked(st, m) ==
  IF m.coords \in DOMAIN st.chunks
  THEN LET chunk0 == [st.chunks[m.coords] EXCEPT !.cached_vertices = <<m.vertices>>,
                                                  !.mesh_cache_valid = TRUE]
           r == IF MeshLen(m.vertices) > 0 THEN ReplaceVao(st, m.coords, chunk0, m.vertices)
                ELSE [st |-> st, chunk |-> chunk0]
       IN [r.st EXCEPT !.chunks[m.coords] = [r.chunk EXCEPT !.needs_update = FALSE]]
  ELSE [create_vao(st, m.coords, m.vertices) EXCEPT !.discarded = @ \cup {m.coords},
                                                    !.loaded_chunks = @ \cup {m.coords}]

\* process_completed_chunks, second loop body: one completed mesh; a result
\* whose coordinate is not in the active map is dropped
ApplyMeshResult(st, m) ==
  IF m.coords \in DOMAIN st.chunks
  THEN LET chunk0 == [st.chunks[m.coords] EXCEPT !.cached_vertices = <<m.vertices>>,
                                                  !.mesh_cache_valid = TRUE]
           r == IF MeshLen(m.vertices) > 0 THEN ReplaceVao(st, m.coords, chunk0, m.vertices)
                ELSE [st |-> st, chunk |-> chunk0]
       IN [r.st EXCEPT !.chunks[m.coords] = [r.chunk EXCEPT !.needs_update = FALSE]]
  ELSE [st EXCEPT !.discarded = @ \cup {m.coords}]

\* save_chunk_to_cache
save_chunk_to_cache(st, c) ==
  IF c \in DOMAIN st.chunks
  THEN [st EXCEPT !.chunk_cache = DictPut(st.chunk_cache, c, save_chunk_data(st.chunks[c])),
                  !.explored_chunks = @ \cup {c}]
  ELSE st

\* unload_chunk_immediate that drops the chunk without the snapshot
unload_chunk_immediate_unsaved(st, c) ==
  IF c \in DOMAIN st.chunks
  THEN LET chunk == st.chunks[c]
           st2 == IF chunk.vao # 0 THEN release_vao(st, chunk.vao) ELSE st
       IN [st2 EXCEPT !.chunks = DictDel(st2.chunks, c),
                      !.mesh_build_queue = DetachRequests(st2.mesh_build_queue, c, chunk.blocks),
                      !.loaded_chunks = @ \ {c},
                      !.evicted = DictPut(st2.evicted, c,
                                    [blocks |-> chunk.blocks, is_generated |-> chunk.is_generated,
                                     is_modified |-> chunk.is_modified])]
  ELSE st

\* unload_chunk_immediate that leaves the coordinate marked as loaded
unload_chunk_immediate_marked(st, c) ==
  IF c \in DOMAIN st.chunks
  THEN LET chunk == st.chunks[c]
           st1 == save_chunk_to_cache(st, c)
           st2 == IF chunk.vao # 0 THEN release_vao(st1, chunk.vao) ELSE st1
       IN [st2 EXCEPT !.chunks = DictDel(st2.chunks, c),
                      !.mesh_build_queue = DetachRequests(st2.mesh_build_queue, c, chunk.blocks),
                      !.evicted = DictPut(st2.evicted, c,
                                    [blocks |-> chunk.blocks, is_generated |-> chunk.is_generated,
                                     is_modified |-> chunk.is_modified])]
  ELSE st

\* unload_chunk_immediate
unload_chunk_immediate(st, c) ==
  IF c \in DOMAIN st.chunks
  THEN LET chunk == st.chunks[c]
           st1 == save_chunk_to_cache(st, c)
           st2 == IF chunk.vao # 0 THEN release_vao(st1, chunk.vao) ELSE st1
       IN [st2 EXCEPT !.chunks = DictDel(st2.chunks, c),
                      !.mesh_build_queue = DetachRequests(st2.mesh_build_queue, c, chunk.blocks),
                      !.loaded_chunks = @ \ {c},
                      !.evicted = DictPut(st2.evicted, c,
                                    [blocks |-> chunk.blocks, is_generated |-> chunk.is_generated,
                                     is_modified |-> chunk.is_modified])]
  ELSE st

\* queue.Queue.get(): on an empty queue the caller waits for a put
get_blocking(q) == [waits |-> q = <<>>, item |-> IF q = <<>> THEN <<>> ELSE <<Head(q)>>]

\* queue.Queue.get_nowait(): the head, or queue.Empty (item <<>>) at once
get_nowait(q) == [waits |-> FALSE, item |-> IF q = <<>> THEN <<>> ELSE <<Head(q)>>]

\* the three loops of process_completed_chunks: "except queue.Empty: break"
RECURSIVE DrainLoaded(_, _)
DrainLoaded(st, processed) ==
  IF processed >= max_per_frame THEN st
  ELSE LET got == get_nowait(st.completed_chunks)
       IN IF got.waits THEN [st EXCEPT !.waited = TRUE]
          ELSE IF got.item = <<>> THEN st
          ELSE DrainLoaded(IntegrateLoaded([st EXCEPT !.completed_chunks = Tail(@)], got.item[1]),
                           processed + 1)

RECURSIVE DrainMeshes(_, _)
DrainMeshes(st, mesh_processed) ==
  IF mesh_processed >= max_per_frame THEN st
  ELSE LET got == get_nowait(st.completed_meshes)
       IN IF got.waits THEN [st EXCEPT !.waited = TRUE]
          ELSE IF got.item = <<>> THEN st
          ELSE DrainMeshes(ApplyMeshResult([st EXCEPT !.completed_meshes = Tail(@)], got.item[1]),
                           IF got.item[1].coords \in DOMAIN st.chunks
                           THEN mesh_processed + 1 ELSE mesh_processed)

RECURSIVE DrainUnloads(_, _)
DrainUnloads(st, unload_count) ==
  IF unload_count >= max_per_frame THEN st
  ELSE LET got == get_nowait(st.chunks_to_unload)
       IN IF got.waits THEN [st EXCEPT !.waited = TRUE]
          ELSE IF got.item = <<>> THEN st
          ELSE DrainUnloads(unload_chunk_immediate([st EXCEPT !.chunks_to_unload = Tail(@)],
                                                    got.item[1]),
                            unload_count + 1)

\* process_completed_chunks
process_completed_chunks(st) == DrainUnloads(DrainMeshes(DrainLoaded(st, 0), 0), 0)

\* request_chunk_load that enqueues without the pending mark
request_chunk_load_unmarked(st, c) ==
  IF c \notin DOMAIN st.chunks /\ c \notin st.loaded_chunks
  THEN [st EXCEPT !.chunk_queue = Append(@, [type |-> "load", coords |-> c])]
  ELSE IF c \notin DOMAIN st.chunks THEN [st EXCEPT !.refused = @ \cup {c}] ELSE st

\* request_chunk_load
request_chunk_load(st, c) ==
  IF c \notin DOMAIN st.chunks /\ c \notin st.loaded_chunks
  THEN [st EXCEPT !.chunk_queue = Append(@, [type |-> "load", coords |-> c]),
                  !.loaded_chunks = @ \cup {c}]
  ELSE IF c \notin DOMAIN st.chunks THEN [st EXCEPT !.refused = @ \cup {c}] ELSE st

\* request_chunk_unload
request_chunk_unload(st, c) ==
  IF c \in DOMAIN st.chunks
  THEN [st EXCEPT !.chunk_queue = Append(@, [type |-> "unload", coords |-> c])]
  ELSE st

RECURSIVE RequestLoads(_, _)
RequestLoads(st, order) ==
  IF order = <<>> THEN st ELSE RequestLoads(request_chunk_load(st, Head(order)), Tail(order))

RECURSIVE RequestUnloads(_, _)
RequestUnloads(st, order) ==
  IF order = <<>> THEN st ELSE RequestUnloads(request_chunk_unload(st, Head(order)), Tail(order))

\* clear_distant_mesh_requests: keeps the requests inside the square of the
\* render distance around the player's chunk, with a recomputed priority
clear_distant_mesh_requests(st) ==
  LET cur == world_to_chunk_coords(st.player_position)
      Keep(r) == /\ Abs(r.coords[1] - cur[1]) <= render_distance
                 /\ Abs(r.coords[2] - cur[2]) <= render_distance
  IN [st EXCEPT !.mesh_build_queue =
        {[r EXCEPT !.priority = calculate_chunk_priority(r.coords, st.player_position)] :
            r \in {q \in st.mesh_build_queue : Keep(q)}}]

\* the assignment of a handler's final state, once the handler has returned
Commit(st) ==
  /\ ~st.waited
  /\ chunks' = st.chunks
  /\ loaded_chunks' = st.loaded_chunks
  /\ chunk_cache' = st.chunk_cache
  /\ explored_chunks' = st.explored_chunks
  /\ chunk_queue' = st.chunk_queue
  /\ completed_chunks' = st.completed_chunks
  /\ chunks_to_unload' = st.chunks_to_unload
  /\ mesh_build_queue' = st.mesh_build_queue
  /\ completed_meshes' = st.completed_meshes
  /\ mesh_request_counter' = st.mesh_request_counter
  /\ gpu' = st.gpu
  /\ player_position' = st.player_position
  /\ evicted' = st.evicted

\* the caps that keep the counters and the queue bounded
WithinBounds(st) ==
  /\ st.mesh_request_counter <= MaxMeshRequests
  /\ Len(st.gpu) <= MaxVaos
  /\ Len(st.chunk_queue) <= MaxQueue
\* update(player_pos) that evaluates the radius on every call
UpdateResult_everyframe(pos, loadOrder, unloadOrder) ==
  LET st0 == [MainState EXCEPT !.player_position = pos]
      st1 == process_completed_chunks(st0)
  IN RequestUnloads(RequestLoads(st1, loadOrder), unloadOrder)

\* update(player_pos): the radius evaluation for the iteration orders given
UpdateResult(pos, loadOrder, unloadOrder) ==
  LET cur == world_to_chunk_coords(pos)
      st0 == [MainState EXCEPT !.player_position = pos]
      st1 == process_completed_chunks(st0)
  IN IF <<cur>> # last_player_chunk
     THEN LET st2 == IF last_player_chunk # <<>>
                        /\ Max2(Abs(cur[1] - last_player_chunk[1][1]),
                                Abs(cur[2] - last_player_chunk[1][2])) >= 2
                     THEN clear_distant_mesh_requests(st1)
                     ELSE st1
              st3 == RequestLoads(st2, loadOrder)
          IN RequestUnloads(st3, unloadOrder)
     ELSE st1

\* the sets update() iterates over: chunks_to_load and list(loaded_chunks)
\* outside of it (after the load requests were added)
UpdateLoadSet(pos) ==
  LET cur == world_to_chunk_coords(pos)
  IN IF <<cur>> # last_player_chunk THEN get_chunks_in_range(cur[1], cur[2]) ELSE {}
UpdateUnloadSet(pos) ==
  LET cur == world_to_chunk_coords(pos)
      st1 == process_completed_chunks(MainState)
  IN IF <<cur>> # last_player_chunk
     THEN st1.loaded_chunks \ get_chunks_in_range(cur[1], cur[2])
     ELSE {}

Update(pos) ==
  /\ main_pc = "running"
  /\ \E loadOrder \in Orders(UpdateLoadSet(pos)), unloadOrder \in Orders(UpdateUnloadSet(pos)) :
       LET st == UpdateResult(pos, loadOrder, unloadOrder)
       IN /\ WithinBounds(st)
          /\ Commit(st)
          /\ last_update' = [discarded |-> st.discarded, refused |-> st.refused]
  /\ last_player_chunk' = <<world_to_chunk_coords(pos)>>
  /\ UNCHANGED <<render_distance, returned, initial_chunks_generated, should_stop, main_pc,
                 worker_pc, expected>>

\* the chunk and the local cell of a world position (x, y, z)
ChunkOf(w) == world_to_chunk_coords(<<w[1], w[3]>>)
LocalOf(w) == <<w[1] - ChunkOf(w)[1] * CHUNK_SIZE, w[2], w[3] - ChunkOf(w)[2] * CHUNK_SIZE>>

\* get_block_at(world_x, world_y, world_z)
get_block_at(w) ==
  IF ChunkOf(w) \in DOMAIN chunks
  THEN get_block(chunks[ChunkOf(w)], LocalOf(w)[1], LocalOf(w)[2], LocalOf(w)[3])
  ELSE AIR

\* set_block_at(world_x, world_y, world_z, block_type): the fields after the
\* call; it returns True exactly when the chunk is in the active map
set_block_at(st, w, block_type) ==
  LET c == ChunkOf(w)
      l == LocalOf(w)
  IN IF c \in DOMAIN st.chunks
     THEN [st EXCEPT !.chunks[c] = set_block(@, l[1], l[2], l[3], block_type)]
     ELSE st

\* the value set_block_at returns
set_block_at_returns(st, w) == ChunkOf(w) \in DOMAIN st.chunks

SetBlockAt(w, block_type) ==
  /\ main_pc = "running"
  /\ LET c == ChunkOf(w)
         l == LocalOf(w)
     IN /\ chunks' = set_block_at(MainState, w, block_type).chunks
        /\ expected' = IF c \in DOMAIN chunks /\ ~OutOfChunk(l[1], l[2], l[3])
                       THEN [expected EXCEPT ![c][l] = block_type]
                       ELSE expected
  /\ last_update' = NoUpdate
  /\ UNCHANGED <<render_distance, returned, loaded_chunks, chunk_cache, explored_chunks,
                 last_player_chunk, player_position,
                 initial_chunks_generated, should_stop, chunk_queue, completed_chunks,
                 chunks_to_unload, mesh_build_queue, completed_meshes, mesh_request_counter,
                 gpu, main_pc, worker_pc, evicted>>

\* chunk.render() for the chunks that survive culling, in map order
RECURSIVE RenderAll(_, _)
RenderAll(st, todo) ==
  IF todo = {} THEN st
  ELSE LET c == CHOOSE x \in todo : \A y \in todo : x[1] < y[1] \/ (x[1] = y[1] /\ x[2] <= y[2])
           r == build_mesh(st, c, st.chunks[c])
           st1 == [r.st EXCEPT !.chunks[c] = r.chunk]
       IN RenderAll(st1, todo \ {c})

\* render_chunks: visible is the set of chunks the frustum and occlusion
\* filters let through
RenderChunks(visible) ==
  /\ main_pc = "running"
  /\ LET st == RenderAll(MainState, visible)
     IN /\ WithinBounds(st)
        /\ Commit(st)
        /\ last_update' = NoUpdate
  /\ UNCHANGED <<render_distance, returned, last_player_chunk, initial_chunks_generated,
                 should_stop, main_pc, worker_pc,
                 expected>>

\* pregenerate_spawn_chunks, loop body: one chunk generated and meshed on
\* the calling thread
PregenerateChunk(st, c) ==
  LET r == build_mesh(st, c, ModernChunk(c, <<>>))
      st1 == StoreChunk(r.st, c, r.chunk)
  IN [st1 EXCEPT !.loaded_chunks = @ \cup {c}, !.explored_chunks = @ \cup {c}]

RECURSIVE PregenerateAll(_, _)
PregenerateAll(st, order) ==
  IF order = <<>> THEN st ELSE PregenerateAll(PregenerateChunk(st, Head(order)), Tail(order))

\* pregenerate_spawn_chunks(spawn_x, spawn_z) for a burst of n chunks
pregenerate_spawn_chunks(st, spawn, n) ==
  LET sc == world_to_chunk_coords(spawn)
  IN PregenerateAll(st, pregen_coords(n, sc[1], sc[2]))

\* main.initialize_spawn_chunks: the burst, then load requests for the
\* chunks in range of the spawn chunk that are not marked loaded
InitializeSpawnChunks ==
  /\ main_pc = "init"
  /\ ~initial_chunks_generated
  /\ LET sc == world_to_chunk_coords(SpawnPosition)
         st1 == pregenerate_spawn_chunks(MainState, SpawnPosition, PregenCount)
         todo == {c \in get_chunks_in_range(sc[1], sc[2]) : c \notin st1.loaded_chunks}
     IN \E order \in Orders(todo) :
          LET st == RequestLoads(st1, order)
          IN /\ WithinBounds(st)
             /\ Commit(st)
  /\ initial_chunks_generated' = TRUE
  /\ main_pc' = "running"
  /\ last_update' = NoUpdate
  /\ UNCHANGED <<render_distance, returned, last_player_chunk, should_stop, worker_pc, expected>>

RECURSIVE ReleaseAll(_, _)
ReleaseAll(st, todo) ==
  IF todo = {} THEN st
  ELSE LET c == CHOOSE x \in todo : TRUE
       IN ReleaseAll(IF st.chunks[c].vao # 0 THEN release_vao(st, st.chunks[c].vao) ELSE st,
                     todo \ {c})

RECURSIVE DetachAll(_, _, _)
DetachAll(q, chunkMap, todo) ==
  IF todo = {} THEN q
  ELSE LET c == CHOOSE x \in todo : TRUE
       IN DetachAll(DetachRequests(q, c, chunkMap[c].blocks), chunkMap, todo \ {c})

\* cleanup: stops the worker, releases every buffer, clears the maps
cleanup(st) ==
  LET st1 == ReleaseAll(st, DOMAIN st.chunks)
  IN [st1 EXCEPT !.chunks = EmptyDict,
                 !.loaded_chunks = {},
                 !.mesh_build_queue = DetachAll(st.mesh_build_queue, st.chunks, DOMAIN st.chunks)]

\* main.run leaves its loop and calls cleanup
Cleanup ==
  /\ main_pc = "running"
  /\ should_stop' = TRUE
  /\ Commit(cleanup(MainState))
  /\ main_pc' = "done"
  /\ last_update' = NoUpdate
  /\ UNCHANGED <<render_distance, returned, last_player_chunk, initial_chunks_generated,
                 worker_pc, expected>>

Main ==
  \/ InitializeSpawnChunks
  \/ \E pos \in PlayerPositions : Update(pos)
  \/ \E w \in EditPositions, block_type \in BlockTypes : SetBlockAt(w, block_type)
  \/ \E visible \in SUBSET (DOMAIN chunks) : RenderChunks(visible)
  \/ Cleanup

Next == Main \/ Worker

Spec == Init /\ [][Next]_vars

(***************************************************************************)
(* Properties                                                              *)
(***************************************************************************)
\* load tasks of coordinate c that are outstanding: waiting in chunk_queue
\* or waiting in completed_chunks (the worker executes a task in one step)
LoadTasks(c) ==
  Cardinality({i \in DOMAIN chunk_queue : chunk_queue[i] = [type |-> "load", coords |-> c]})
  + Cardinality({i \in DOMAIN completed_chunks : completed_chunks[i].coords = c})

IsActive(c) == c \in DOMAIN chunks
IsPending(c) == c \in loaded_chunks /\ c \notin DOMAIN chunks
IsCached(c) == c \in DOMAIN chunk_cache

\* world position of cell l of chunk c
WorldOf(c, l) == <<c[1] * CHUNK_SIZE + l[1], l[2], c[2] * CHUNK_SIZE + l[3]>>

\* C1: every coordinate is in at most one of the active map, the in-flight
\* set (marked loaded, not yet active) and the eviction cache.
C1_OneOfActivePendingCached ==
  \A c \in Coords : ~(IsCached(c) /\ (IsActive(c) \/ IsPending(c)))

\* C2: at most one load task is outstanding for every coordinate, in every
\* interleaving of the requests with the worker and with unload processing.
C2_AtMostOneLoadTask == \A c \in Coords : LoadTasks(c) <= 1

\* C2 witness: update() has just refused the load request of a coordinate
\* that is pending with its one load task outstanding.
C2_Witness ==
  \E c \in last_update.refused : IsPending(c) /\ LoadTasks(c) = 1

\* C3: no coordinate is marked pending with no load task outstanding and no
\* chunk in the active map (a failed load returns it to unrequested).
C3_NoStuckPending == \A c \in Coords : IsPending(c) => LoadTasks(c) >= 1

\* C4: an error inside a load task or a mesh task does not end the worker
\* loop; the loop ends only once should_stop is set.
C4_WorkerSurvivesErrors == worker_pc = "stopped" => should_stop

\* C4 witness: a task has raised, the loop is in its exception handler, it
\* was not asked to stop and a later task is waiting for it.
C4_Witness ==
  /\ worker_pc = "sleep"
  /\ ~should_stop
  /\ (chunk_queue # <<>> \/ mesh_build_queue # {})

\* C5: a completed mesh whose coordinate is not in the active map when the
\* drain step dequeues it is dropped: the coordinate is not active before or
\* after the step, no buffer is created for it, and it enters the loaded set
\* only through a load request of the same update().
C5_DiscardedMeshHasNoEffect ==
  [][\A c \in last_update'.discarded :
        /\ c \notin DOMAIN chunks
        /\ c \notin DOMAIN chunks'
        /\ \A id \in (Len(gpu) + 1)..Len(gpu') : gpu'[id].coords # c
        /\ (c \in loaded_chunks' /\ c \notin loaded_chunks)
              => \E i \in DOMAIN chunk_queue' : chunk_queue'[i] = [type |-> "load", coords |-> c]]_vars

\* C5 witness: the update() of the last step dropped a mesh result.
C5_Witness == last_update.discarded # {}

\* C6: the snapshot in the eviction cache equals the grid and the flags the
\* chunk had when it was evicted, also after the restored chunk is edited,
\* and a chunk restored from the cache has exactly that grid and those flags.
C6_EvictRestoreRoundTrip ==
  /\ \A c \in DOMAIN chunk_cache : c \in DOMAIN evicted /\ chunk_cache[c] = evicted[c]
  /\ \A i \in DOMAIN completed_chunks :
        LET r == completed_chunks[i]
        IN r.from_cache =>
             /\ r.chunk.blocks = evicted[r.coords].blocks
             /\ r.chunk.is_modified = evicted[r.coords].is_modified
             /\ r.chunk.is_generated = evicted[r.coords].is_generated

\* C6 witness: a chunk that was edited before its eviction has been
\* restored from the cache.
C6_Witness ==
  \E i \in DOMAIN completed_chunks :
     /\ completed_chunks[i].from_cache
     /\ completed_chunks[i].chunk.is_modified
     /\ completed_chunks[i].chunk.blocks # GenBlocks(completed_chunks[i].coords)

\* C7: whenever a coordinate is active, get_block_at returns for each of its
\* cells the value of the last set_block_at that returned True for the cell,
\* or the generated value if there was none.
C7_NoEditLost ==
  \A c \in Coords, l \in GridCells :
     IsActive(c) => get_block_at(WorldOf(c, l)) = expected[c][l]

\* C7 witness: a chunk edited before its eviction is active again and shows
\* the edited value.
C7_Witness ==
  \E c \in Coords, l \in GridCells :
     /\ IsActive(c)
     /\ c \in DOMAIN evicted
     /\ evicted[c].blocks[l] # GenBlocks(c)[l]
     /\ get_block_at(WorldOf(c, l)) = evicted[c].blocks[l]

\* C8 as stated: every set_block_at on an in-bounds cell of an active chunk
\* leaves the chunk dirty and modified, whatever the cell held: in every
\* state in which the call can be made, for every cell and block type.
C8_EveryWriteSetsFlags ==
  main_pc = "running" =>
    \A w \in EditPositions, block_type \in BlockTypes :
       IsActive(ChunkOf(w)) =>
          LET chunk == set_block_at(MainState, w, block_type).chunks[ChunkOf(w)]
          IN chunk.needs_update /\ chunk.is_modified

\* C8 amended: a set_block_at on an in-bounds cell of an active chunk that
\* writes a block type different from the cell's value leaves the chunk
\* dirty and modified, with the cell holding the written type; a write of
\* the value the cell holds changes nothing.
C8_ChangingWriteSetsFlags ==
  main_pc = "running" =>
    \A w \in EditPositions, block_type \in BlockTypes :
       IsActive(ChunkOf(w)) =>
          LET after == set_block_at(MainState, w, block_type).chunks
              chunk == after[ChunkOf(w)]
          IN IF get_block_at(w) # block_type
             THEN /\ chunk.needs_update
                  /\ chunk.is_modified
                  /\ chunk.blocks[LocalOf(w)] = block_type
             ELSE after = chunks

\* C8 witness: a chunk that holds a buffer (its mesh was built, it was clean)
\* is dirty and modified after an edit.
C8_Witness ==
  \E c \in Coords :
     /\ IsActive(c)
     /\ chunks[c].vao # 0
     /\ chunks[c].needs_update
     /\ chunks[c].is_modified

\* C9: a drain pass leaves every active chunk that an edit made dirty with
\* exactly one mesh-build request in mesh_build_queue.
C9_DrainEnqueuesRebuild ==
  main_pc = "running" =>
    LET st == process_completed_chunks(MainState)
    IN \A c \in DOMAIN st.chunks :
          (st.chunks[c].needs_update /\ st.chunks[c].is_modified)
             => Cardinality({r \in st.mesh_build_queue : r.coords = c /\ r.live}) = 1

\* C10: when a mesh is applied to a chunk that has a buffer (the dirty flag
\* of an active chunk is cleared), the old buffer is released and the chunk
\* gets a new one.
C10_RebuildReplacesBuffer ==
  [][\A c \in (DOMAIN chunks) \cap (DOMAIN chunks') :
        (chunks[c].vao # 0 /\ chunks[c].needs_update /\ ~chunks'[c].needs_update)
           => /\ chunks'[c].vao # chunks[c].vao
              /\ gpu'[chunks[c].vao].releases = 1]_vars

(***************************************************************************)
(* get_chunks_in_range called on managers of every render distance         *)
(***************************************************************************)
RangeCenters == (-MaxCenter..MaxCenter) \X (-MaxCenter..MaxCenter)

InitRange ==
  /\ render_distance \in 0..MaxRenderDistance
  /\ returned = <<>>
  /\ ManagerInit

\* a call get_chunks_in_range(cx, cz)
GetChunksInRange(cx, cz) ==
  /\ returned' = [cx |-> cx, cz |-> cz, result |-> get_chunks_in_range(cx, cz)]
  /\ UNCHANGED <<render_distance, chunks, loaded_chunks, chunk_cache, explored_chunks,
                 last_player_chunk, player_position, initial_chunks_generated, should_stop,
                 chunk_queue, completed_chunks, chunks_to_unload, mesh_build_queue,
                 completed_meshes, mesh_request_counter, gpu, main_pc, worker_pc, expected,
                 evicted, last_update>>

NextRange == \E c \in RangeCenters : GetChunksInRange(c[1], c[2])

SpecRange == InitRange /\ [][NextRange]_vars

\* squared Euclidean distance of two chunk coordinates
Dist2(a, b) == (a[1] - b[1]) * (a[1] - b[1]) + (a[2] - b[2]) * (a[2] - b[2])

\* C11: get_chunks_in_range(cx, cz) returns exactly the integer coordinates
\* whose squared distance from the centre is at most R * R (none of the
\* coordinates one ring further out either), 13 of them without the square's
\* corners for R = 2, and the set for R contains the set for R - 1.
C11_RangeIsDisc ==
  returned # <<>> =>
    LET R == render_distance
        centre == <<returned.cx, returned.cz>>
        around == ((returned.cx - R - 1)..(returned.cx + R + 1))
                    \X ((returned.cz - R - 1)..(returned.cz + R + 1))
    IN /\ returned.result = {c \in around : Dist2(c, centre) <= R * R}
       /\ R = 2 => /\ Cardinality(returned.result) = 13
                   /\ \A dx \in {-2, 2}, dz \in {-2, 2} :
                         <<returned.cx + dx, returned.cz + dz>> \notin returned.result
       /\ R >= 1 => chunks_in_range(returned.cx, returned.cz, R - 1) \subseteq returned.result

\* C11 witness: a call on a manager of render distance 2 returned 13
\* coordinates.
C11_Witness ==
  /\ returned # <<>>
  /\ render_distance = 2
  /\ Cardinality(returned.result) = 13

(***************************************************************************)
(* Fair scheduling: the worker thread is a daemon thread that keeps        *)
(* running its loop; the frame loop of main.py keeps calling update() with *)
(* the camera position.                                                    *)
(***************************************************************************)
LiveSpec ==
  /\ Init
  /\ [][Next]_vars
  /\ WF_vars(Worker)

\* a call update(pos) would leave every field as it is (or the caps stop it)
UpdateChangesNothing(pos) ==
  \A loadOrder \in Orders(UpdateLoadSet(pos)), unloadOrder \in Orders(UpdateUnloadSet(pos)) :
     LET st == UpdateResult(pos, loadOrder, unloadOrder)
     IN WithinBounds(st) =>
          /\ st = [MainState EXCEPT !.discarded = st.discarded, !.refused = st.refused]
          /\ last_update = [discarded |-> st.discarded, refused |-> st.refused]
          /\ last_player_chunk = <<world_to_chunk_coords(pos)>>

\* the frame loop keeps calling update(camera position): a call that would
\* change something is not postponed forever
UpdateKeepsBeingCalled ==
  \/ []<>(main_pc # "running" \/ UpdateChangesNothing(player_position))
  \/ []<><<Update(player_position)>>_vars

\* the observer stays at position p from some point on, in a running frame
\* loop whose update() has seen the chunk of p
StaysAt(p) ==
  <>[](/\ player_position = p
       /\ last_player_chunk = <<world_to_chunk_coords(p)>>
       /\ main_pc = "running")

\* no load task and no mesh task fails: the worker never reaches the sleep
\* of its except branch
NoTaskFails == [](worker_pc # "sleep")

\* the caps of the counters stop every update(p)
UpdateCapped(p) ==
  \A loadOrder \in Orders(UpdateLoadSet(p)), unloadOrder \in Orders(UpdateUnloadSet(p)) :
     ~WithinBounds(UpdateResult(p, loadOrder, unloadOrder))

\* the coordinates within render distance of the chunk of position p
RangeOf(p) == get_chunks_in_range(world_to_chunk_coords(p)[1], world_to_chunk_coords(p)[2])

\* C12: if the observer stays in one chunk, update() keeps being called, no
\* task fails and the worker is scheduled fairly, then every coordinate
\* within render distance of the observer's chunk is eventually active.
C12_RangeEventuallyActive ==
  \A p \in PlayerPositions :
     (StaysAt(p) /\ UpdateKeepsBeingCalled /\ NoTaskFails)
        => []<>(RangeOf(p) \subseteq DOMAIN chunks \/ UpdateCapped(p))

\* C13: under the same conditions, eventually no coordinate farther than
\* render distance from the observer's chunk is active.
C13_OutOfRangeEventuallyUnloaded ==
  \A p \in PlayerPositions :
     (StaysAt(p) /\ UpdateKeepsBeingCalled /\ NoTaskFails)
        => []<>(DOMAIN chunks \subseteq RangeOf(p) \/ UpdateCapped(p))

(***************************************************************************)
(* The drain step on a backlog: the worker has run ahead of the frame loop *)
(* and results wait in completed_chunks and completed_meshes.              *)
(***************************************************************************)
\* a coordinate that is not active: its chunk was unloaded while its mesh
\* requests were being built
UnloadedChunk == <<2, 0>>

\* the order in which get_chunks_in_range appends coordinates: x outer, z inner
RECURSIVE ScanOrder(_)
ScanOrder(S) ==
  IF S = {} THEN <<>>
  ELSE LET c == CHOOSE x \in S : \A y \in S : x[1] < y[1] \/ (x[1] = y[1] /\ x[2] <= y[2])
       IN <<c>> \o ScanOrder(S \ {c})

\* the coordinates of n load results in the order the worker completes
\* them: the column of the spawn chunk, scanned like get_chunks_in_range
BacklogCoords(n) ==
  ScanOrder({<<SpawnChunk[1], SpawnChunk[2] + z>> : z \in (-(n \div 2))..((n + 1) \div 2)} \ {SpawnChunk})

\* what the worker puts on completed_chunks for a generated chunk
LoadedResult(c) == [coords |-> c, chunk |-> ModernChunk(c, <<>>), from_cache |-> FALSE]
\* what the worker puts on completed_meshes for a generated chunk
MeshResult(c) == [coords |-> c, vertices |-> build_chunk_mesh_fast(GenBlocks(c))]

Repeat(x, n) == [i \in 1..n |-> x]

\* the spawn chunk is active and either nLoaded load results wait for
\* integration, or nDropped mesh results wait for the unloaded coordinate
\* and nApplied for the spawn chunk
InitDrain ==
  /\ render_distance = ConstructedRenderDistance
  /\ returned = <<>>
  /\ \E nLoaded \in 0..MaxBacklog, nDropped \in 0..MaxBacklog, droppedFirst \in BOOLEAN :
       \E nApplied \in 0..(MaxBacklog - nDropped) :
          /\ nLoaded = 0 \/ nDropped + nApplied = 0
          /\ chunks = DictPut(EmptyDict, SpawnChunk, ModernChunk(SpawnChunk, <<>>))
          /\ loaded_chunks = {SpawnChunk} \cup {BacklogCoords(nLoaded)[i] : i \in 1..nLoaded}
          /\ explored_chunks = {SpawnChunk, UnloadedChunk} \cup {BacklogCoords(nLoaded)[i] : i \in 1..nLoaded}
          /\ completed_chunks = [i \in 1..nLoaded |-> LoadedResult(BacklogCoords(nLoaded)[i])]
          /\ completed_meshes =
               IF droppedFirst
               THEN Repeat(MeshResult(UnloadedChunk), nDropped) \o Repeat(MeshResult(SpawnChunk), nApplied)
               ELSE Repeat(MeshResult(SpawnChunk), nApplied) \o Repeat(MeshResult(UnloadedChunk), nDropped)
  /\ chunk_cache = DictPut(EmptyDict, UnloadedChunk, save_chunk_data(ModernChunk(UnloadedChunk, <<>>)))
  /\ last_player_chunk = <<SpawnChunk>>
  /\ player_position = SpawnPosition
  /\ initial_chunks_generated = TRUE
  /\ should_stop = FALSE
  /\ chunk_queue = <<>>
  /\ chunks_to_unload = <<>>
  /\ mesh_build_queue = {}
  /\ mesh_request_counter = 0
  /\ gpu = <<>>
  /\ main_pc = "running"
  /\ worker_pc = "load"
  /\ expected = [c \in Coords |-> GenBlocks(c)]
  /\ evicted = DictPut(EmptyDict, UnloadedChunk, save_chunk_data(ModernChunk(UnloadedChunk, <<>>)))
  /\ last_update = NoUpdate

\* one call of process_completed_chunks()
ProcessCompletedChunks ==
  /\ main_pc = "running"
  /\ LET st == process_completed_chunks(MainState)
     IN /\ Commit(st)
        /\ last_update' = [discarded |-> st.discarded, refused |-> st.refused]
  /\ UNCHANGED <<render_distance, returned, last_player_chunk, initial_chunks_generated,
                 should_stop, main_pc, worker_pc, expected>>

NextDrain ==
  \/ ProcessCompletedChunks
  \/ WorkerLoadIdle
  \/ WorkerMeshIdle
  \/ WorkerMesh

SpecDrain == InitDrain /\ [][NextDrain]_vars

\* q after its first n elements were taken
Drop(q, n) == SubSeq(q, n + 1, Len(q))

\* C14: one call of process_completed_chunks removes at most max_per_frame
\* results from completed_chunks and at most max_per_frame results from
\* completed_meshes, dropped results included; what it leaves is the rest
\* of each queue in its order.
C14_DrainIsCapped ==
  LET st == process_completed_chunks(MainState)
      nChunks == Len(completed_chunks) - Len(st.completed_chunks)
      nMeshes == Len(completed_meshes) - Len(st.completed_meshes)
  IN /\ nChunks \in 0..max_per_frame
     /\ nMeshes \in 0..max_per_frame
     /\ st.completed_chunks = Drop(completed_chunks, nChunks)
     /\ st.completed_meshes = Drop(completed_meshes, nMeshes)

(***************************************************************************)
(* The mesh queue at render distance 1: the manager right after            *)
(* initialize_spawn_chunks, an observer that jumps between the spawn chunk *)
(* and a chunk two columns and one row away, and a worker whose tasks      *)
(* succeed.                                                                *)
(***************************************************************************)
\* render_distance the manager is constructed with here: the smallest radius
\* whose square has corners outside the circular footprint
NearRenderDistance == 1
\* positions the observer is moved to: the centre of the spawn chunk (0,0)
\* and the centre of chunk (-2,-1)
NearPositions == {<<8, 8>>, <<-24, -8>>}

\* the fields of a manager as __init__ leaves them
ConstructedState ==
  [chunks |-> EmptyDict, loaded_chunks |-> {}, chunk_cache |-> EmptyDict,
   explored_chunks |-> {}, chunk_queue |-> <<>>, completed_chunks |-> <<>>,
   chunks_to_unload |-> <<>>, mesh_build_queue |-> {}, completed_meshes |-> <<>>,
   mesh_request_counter |-> 0, gpu |-> <<>>, player_position |-> <<0, 0>>,
   evicted |-> EmptyDict, discarded |-> {}, refused |-> {}, waited |-> FALSE]

\* main.initialize_spawn_chunks has run on a manager of render distance 1
InitNear ==
  /\ render_distance = NearRenderDistance
  /\ returned = <<>>
  /\ LET st1 == pregenerate_spawn_chunks(ConstructedState, SpawnPosition, PregenCount)
         todo == {c \in get_chunks_in_range(SpawnChunk[1], SpawnChunk[2]) : c \notin st1.loaded_chunks}
         st == RequestLoads(st1, ScanOrder(todo))
     IN /\ chunks = st.chunks
        /\ loaded_chunks = st.loaded_chunks
        /\ chunk_cache = st.chunk_cache
        /\ explored_chunks = st.explored_chunks
        /\ chunk_queue = st.chunk_queue
        /\ completed_chunks = st.completed_chunks
        /\ chunks_to_unload = st.chunks_to_unload
        /\ mesh_build_queue = st.mesh_build_queue
        /\ completed_meshes = st.completed_meshes
        /\ mesh_request_counter = st.mesh_request_counter
        /\ gpu = st.gpu
        /\ player_position = st.player_position
        /\ evicted = st.evicted
  /\ last_player_chunk = <<>>
  /\ initial_chunks_generated = TRUE
  /\ should_stop = FALSE
  /\ main_pc = "running"
  /\ worker_pc = "load"
  /\ expected = [c \in Coords |-> GenBlocks(c)]
  /\ last_update = NoUpdate

\* the caps that keep this scenario bounded
WithinNearBounds(st) ==
  /\ st.mesh_request_counter <= MaxMeshRequests
  /\ Len(st.gpu) <= MaxVaos
  /\ Len(st.chunk_queue) <= MaxNearQueue

\* the active coordinates update(pos) asks to unload (request_chunk_unload
\* ignores the others)
ActiveUnloadSet(pos) ==
  UpdateUnloadSet(pos) \cap DOMAIN process_completed_chunks(MainState).chunks

\* update(pos): the load requests go out in the order of get_chunks_in_range
UpdateNear(pos) ==
  /\ main_pc = "running"
  /\ \E unloadOrder \in Orders(ActiveUnloadSet(pos)) :
       LET st == UpdateResult(pos, ScanOrder(UpdateLoadSet(pos)), unloadOrder)
       IN /\ WithinNearBounds(st)
          /\ Commit(st)
          /\ last_update' = [discarded |-> st.discarded, refused |-> st.refused]
  /\ last_player_chunk' = <<world_to_chunk_coords(pos)>>
  /\ UNCHANGED <<render_distance, returned, initial_chunks_generated, should_stop, main_pc,
                 worker_pc, expected>>

NextNear ==
  \/ \E pos \in NearPositions : UpdateNear(pos)
  \/ WorkerLoadIdle
  \/ WorkerLoad
  \/ WorkerUnload
  \/ WorkerMeshIdle
  \/ WorkerMesh

SpecNear == InitNear /\ [][NextNear]_vars

\* C15: the worker takes from mesh_build_queue the request of smallest
\* priority value whatever the submission order, among requests of equal
\* priority the one of smaller counter; counters are unique, so no two queued
\* entries compare equal.
C15_WorkerTakesSmallest ==
  /\ \A a \in mesh_build_queue, b \in mesh_build_queue : a.counter = b.counter => a = b
  /\ mesh_build_queue # {} =>
       LET r == MeshQueueHead(mesh_build_queue)
       IN /\ r \in mesh_build_queue
          /\ \A o \in mesh_build_queue :
                /\ r.priority <= o.priority
                /\ r.priority = o.priority => r.counter <= o.counter

\* C15 witness: the worker is about to poll a queue whose nearest request
\* was submitted after a farther one.
C15_Witness ==
  /\ worker_pc = "mesh"
  /\ \E a \in mesh_build_queue, b \in mesh_build_queue :
        a.priority < b.priority /\ a.counter > b.counter


\* C16: after an update() in which the observer's chunk changes by 2 or more
\* chunks, mesh_build_queue holds no request farther than render distance
\* (Euclidean, in chunks) from the observer's new chunk.
C16_PurgeLeavesOnlyRange ==
  [][(/\ last_player_chunk # <<>>
      /\ last_player_chunk' # last_player_chunk
      /\ Max2(Abs(last_player_chunk'[1][1] - last_player_chunk[1][1]),
              Abs(last_player_chunk'[1][2] - last_player_chunk[1][2])) >= 2)
     => \A r \in mesh_build_queue' :
           Dist2(r.coords, last_player_chunk'[1]) <= render_distance * render_distance]_vars

\* C17: every buffer creation and every buffer release is made by a
\* presentation-thread operation: no step of the worker (chunk construction
\* for a load task and mesh building included) changes the renderer's
\* buffers.
C17_WorkerTouchesNoBuffer ==
  [][worker_pc' # worker_pc => gpu' = gpu]_vars

\* C17 witness: the worker has built a non-empty mesh for an active chunk
\* that has no buffer yet.
C17_Witness ==
  \E i \in 1..Len(completed_meshes) :
     /\ completed_meshes[i].coords \in DOMAIN chunks
     /\ chunks[completed_meshes[i].coords].vao = 0
     /\ MeshLen(completed_meshes[i].vertices) > 0

\* C18: chunk_cache and explored_chunks are read and written only by
\* presentation-thread operations: no step of the worker changes either.
C18_WorkerLeavesCacheAlone ==
  [][worker_pc' # worker_pc =>
        /\ explored_chunks' = explored_chunks
        /\ chunk_cache' = chunk_cache]_vars

\* the worker's next poll of mesh_build_queue builds the mesh of the chunk
\* object stored at c: build_chunk_mesh_fast reads its block grid
WorkerReadsChunk(c) ==
  /\ worker_pc = "mesh"
  /\ mesh_build_queue # {}
  /\ MeshQueueHead(mesh_build_queue).live
  /\ MeshQueueHead(mesh_build_queue).coords = c

\* the frame loop can call set_block_at on a cell of the chunk stored at c
MainCanWriteChunk(c) ==
  /\ main_pc = "running"
  /\ c \in DOMAIN chunks
  /\ \E w \in EditPositions : ChunkOf(w) = c /\ ~OutOfChunk(LocalOf(w)[1], LocalOf(w)[2], LocalOf(w)[3])

\* C19: no chunk object is accessed by both threads at the same time: in no
\* reachable state does the worker read the block grid of a chunk that the
\* presentation thread can write through set_block_at.
C19_NoSharedChunkAccess ==
  \A c \in DOMAIN chunks : ~(WorkerReadsChunk(c) /\ MainCanWriteChunk(c))

OutsideCells ==
  {<<-1, 0, 0>>, <<CHUNK_SIZE, 0, 0>>, <<0, -1, 0>>, <<0, CHUNK_HEIGHT, 0>>,
   <<0, 0, -1>>, <<0, 0, CHUNK_SIZE>>}

\* world positions below and above the grid of the chunk at the origin
OutsidePositions == {<<0, -1, 0>>, <<0, CHUNK_HEIGHT, 0>>}

\* C21: out-of-range access is not an error: get_block outside the grid and
\* get_block_at on a coordinate that is not active return Air; set_block
\* outside the grid and set_block_at on a coordinate that is not active
\* change no block and no flag of any chunk (set_block_at then returns
\* False).
C21_OutOfRangeIsNoError ==
  /\ \A c \in DOMAIN chunks, l \in OutsideCells :
        /\ get_block(chunks[c], l[1], l[2], l[3]) = AIR
        /\ \A block_type \in BlockTypes :
              set_block(chunks[c], l[1], l[2], l[3], block_type) = chunks[c]
  /\ \A w \in OutsidePositions :
        /\ get_block_at(w) = AIR
        /\ \A block_type \in BlockTypes : set_block_at(MainState, w, block_type) = MainState
  /\ \A w \in EditPositions \cup OutsidePositions :
        ChunkOf(w) \notin DOMAIN chunks =>
           /\ get_block_at(w) = AIR
           /\ ~set_block_at_returns(MainState, w)
           /\ \A block_type \in BlockTypes : set_block_at(MainState, w, block_type) = MainState

\* C21 witness: the frame loop runs with a stone chunk active while the
\* chunk of the edit positions has been evicted.
C21_Witness ==
  /\ main_pc = "running"
  /\ \E w \in EditPositions : ChunkOf(w) \notin DOMAIN chunks /\ ChunkOf(w) \in DOMAIN chunk_cache
  /\ \E c \in DOMAIN chunks : \E i \in GridCells : chunks[c].blocks[i] = STONE

(***************************************************************************)
(* Terrain generation.  A grid is a slice lz = 0 of a chunk, TerrainSize    *)
(* columns wide and TerrainHeight cells high.  fast_noise2 and fast_rand    *)
(* are pure functions of their arguments: they are the fixed oracle `noise` *)
(* that every call reads.                                                   *)
(***************************************************************************)
TerrainSize == 7
TerrainHeight == 5
MaxTerrainHeight == 2
\* topmost cell at or below the water line (11 for WATER_LINE = 11.95)
WATER_LINE == 1

TerrainCells == (0..(TerrainSize - 1)) \X (0..(TerrainHeight - 1))

\* the oracles: a terrain height and a surface kind for every world column
\* (kind 0: stone, 1: grass, 2: grass where should_place_tree holds)
NoiseOracles == [shift : 0..MaxTerrainHeight, kind : 0..2]

\* get_terrain_height
get_terrain_height(noise, world_x) == (world_x + noise.shift) % (MaxTerrainHeight + 1)

\* fast_rand at a surface cell, as get_block_type and should_place_tree use it
fast_rand(noise, world_x) == (world_x + noise.kind) % 3

\* get_block_type
get_block_type(noise, world_x, world_y, terrain_height) ==
  IF world_y > terrain_height
  THEN IF world_y <= WATER_LINE THEN WATER ELSE AIR
  ELSE IF world_y < terrain_height - 1 THEN STONE
  ELSE IF fast_rand(noise, world_x) = 0 THEN STONE ELSE GRASS

\* should_place_tree
should_place_tree(noise, world_x, world_y, block_type) ==
  IF block_type # GRASS THEN FALSE
  ELSE IF world_y <= WATER_LINE THEN FALSE
  ELSE fast_rand(noise, world_x) = 2

\* generate_tree_fast, the assignments blocks[cell] = block it executes:
\* dirt under the trunk, the leaf layer two cells each way, one lateral
\* extension three cells away, the trunk and the top
tree_writes(noise, local_x, local_y) ==
  IF \/ local_y + 2 >= TerrainHeight
     \/ local_x - 1 < 0
     \/ local_x + 1 >= TerrainSize
  THEN {}
  ELSE LET extend_x == local_x + (IF fast_rand(noise, local_x) = 0 THEN 3 ELSE -3)
       IN {<<(<<local_x, local_y>>), DIRT>>}
          \cup {<<(<<local_x + ix, local_y + 1>>), LEAVES>> :
                   ix \in {jx \in {-2, -1, 1, 2} : 0 <= local_x + jx /\ local_x + jx < TerrainSize}}
          \cup (IF 0 <= extend_x /\ extend_x < TerrainSize
                THEN {<<(<<extend_x, local_y + 1>>), LEAVES>>} ELSE {})
          \cup {<<(<<local_x, local_y + 1>>), WOOD>>, <<(<<local_x, local_y + 2>>), LEAVES>>}

\* generate_tree_fast: the grid after its assignments
generate_tree_fast(noise, blocks, local_x, local_y) ==
  LET writes == tree_writes(noise, local_x, local_y)
  IN [c \in TerrainCells |->
        IF \E w \in writes : w[1] = c THEN (CHOOSE w \in writes : w[1] = c)[2] ELSE blocks[c]]

\* one pass of the lx loop of generate_chunk_fast
generate_column(noise, chunk_x, lx, blocks) ==
  LET wx == chunk_x * TerrainSize + lx
      h == get_terrain_height(noise, wx)
      top == Min2(h + 1, TerrainHeight) - 1
      filled == [c \in TerrainCells |->
                   IF c[1] = lx /\ c[2] <= top
                   THEN get_block_type(noise, wx, c[2], h) ELSE blocks[c]]
  IN IF h = top /\ filled[<<lx, h>>] = GRASS /\ should_place_tree(noise, wx, h, GRASS)
     THEN generate_tree_fast(noise, filled, lx, h)
     ELSE filled

RECURSIVE generate_columns(_, _, _, _)
generate_columns(noise, chunk_x, lx, blocks) ==
  IF lx >= TerrainSize THEN blocks
  ELSE generate_columns(noise, chunk_x, lx + 1, generate_column(noise, chunk_x, lx, blocks))

\* generate_chunk_fast
generate_chunk_fast(noise, chunk_x, blocks) == generate_columns(noise, chunk_x, 0, blocks)

\* a generation that keeps what the grid held
fill_skipped(blocks, block_type) == blocks

\* numpy's blocks.fill
fill(blocks, block_type) == [c \in TerrainCells |-> block_type]

\* AdvancedTerrainGenerator.generate_chunk_terrain
generate_chunk_terrain(noise, chunk_x, blocks) ==
  generate_chunk_fast(noise, chunk_x, fill(blocks, AIR))

\* the chunk_x of the three calls in progress: two of the same chunk, one of
\* its neighbour
TerrainRuns == <<0, 0, 1>>

\* what a grid handed to generate_chunk_terrain may hold
TerrainContents == {AIR, LEAVES}

InitTerrain ==
  /\ render_distance = ConstructedRenderDistance
  /\ \E noise \in NoiseOracles :
     \E held \in [DOMAIN TerrainRuns -> TerrainContents] :
        returned = [noise |-> noise,
                    grids |-> [r \in DOMAIN TerrainRuns |-> [c \in TerrainCells |-> held[r]]],
                    at |-> [r \in DOMAIN TerrainRuns |-> -1]]
  /\ ManagerInit

TerrainUnchanged ==
  UNCHANGED <<render_distance, chunks, loaded_chunks, chunk_cache, explored_chunks,
              last_player_chunk, player_position, initial_chunks_generated, should_stop,
              chunk_queue, completed_chunks, chunks_to_unload, mesh_build_queue,
              completed_meshes, mesh_request_counter, gpu, main_pc, worker_pc, expected,
              evicted, last_update>>

\* call r clears its grid
GenerateFill(r) ==
  /\ returned.at[r] = -1
  /\ returned' = [returned EXCEPT !.grids[r] = fill(@, AIR), !.at[r] = 0]
  /\ TerrainUnchanged

\* call r generates its next column
GenerateColumn(r) ==
  /\ returned.at[r] \in 0..(TerrainSize - 1)
  /\ returned' = [returned EXCEPT
                    !.grids[r] = generate_column(returned.noise, TerrainRuns[r], returned.at[r], @),
                    !.at[r] = @ + 1]
  /\ TerrainUnchanged

NextTerrain ==
  \E r \in DOMAIN TerrainRuns : GenerateFill(r) \/ GenerateColumn(r)

SpecTerrain == InitTerrain /\ [][NextTerrain]_vars

\* C22: terrain generation is deterministic: calls of generate_chunk_terrain
\* for the same chunk, started from any grid contents and interleaved in any
\* way with other calls, end with cell-for-cell identical grids, which are a
\* function of the coordinate and the noise alone.
C22_GenerationIsDeterministic ==
  \A r \in DOMAIN TerrainRuns :
     returned.at[r] = TerrainSize =>
        /\ \A q \in DOMAIN TerrainRuns :
              (returned.at[q] = TerrainSize /\ TerrainRuns[q] = TerrainRuns[r])
                 => returned.grids[q] = returned.grids[r]
        /\ \A held \in TerrainContents :
              returned.grids[r] =
                 generate_chunk_terrain(returned.noise, TerrainRuns[r], [c \in TerrainCells |-> held])

\* C22 witness: two calls for the same chunk have finished, one started on a
\* grid of air and one on a grid of leaves, and the grid holds a tree.
C22_Witness ==
  /\ returned.at[1] = TerrainSize
  /\ returned.at[2] = TerrainSize
  /\ returned.at[3] \in 0..(TerrainSize - 1)
  /\ \E c \in TerrainCells : returned.grids[1][c] = WOOD
  /\ \E c \in TerrainCells : returned.grids[1][c] = AIR

(***************************************************************************)
(* The greedy mesher of fast_builder.py on a grid of MeshSize x 2 x 1       *)
(* cells.  A quad is the record of the arguments get_greedy_quad is called  *)
(* with; the vertex buffer holds max_faces quads.                           *)
(***************************************************************************)
MeshSize == 2
\* quads the preallocated vertex and index arrays have room for (20000 for
\* the 16 x 256 x 16 grid; here likewise above what a uniform grid needs and
\* below what the most fragmented one needs)
max_faces == 15

\* dims
MeshDims == <<MeshSize, 2, 1>>
MeshCells == (0..(MeshDims[1] - 1)) \X (0..(MeshDims[2] - 1)) \X (0..(MeshDims[3] - 1))
MeshBlockTypes == {AIR, GRASS, STONE, WATER}
FaceIds == 0..5

\* d_axis, u_axis, v_axis of a face direction (axes 1, 2, 3 are x, y, z)
FaceAxes(face_id) ==
  IF face_id \in {0, 1} THEN [d |-> 2, u |-> 1, v |-> 3]
  ELSE IF face_id \in {2, 3} THEN [d |-> 3, u |-> 1, v |-> 2]
  ELSE [d |-> 1, u |-> 3, v |-> 2]

FaceDirection(face_id) == IF face_id % 2 = 0 THEN 1 ELSE -1

\* coords[d_axis] = d; coords[u_axis] = u; coords[v_axis] = v
FaceCoords(face_id, d, u, v) ==
  LET ax == FaceAxes(face_id)
      at(i) == IF i = ax.d THEN d ELSE IF i = ax.u THEN u ELSE v
  IN <<at(1), at(2), at(3)>>

\* the exposure test of the mask loop
FaceExposed(blocks, face_id, cell) ==
  LET ax == FaceAxes(face_id)
      n == [i \in 1..3 |-> IF i = ax.d THEN cell[i] + FaceDirection(face_id) ELSE cell[i]]
      neighbour == <<n[1], n[2], n[3]>>
  IN /\ blocks[cell] # AIR
     /\ blocks[cell] # WATER
     /\ \/ neighbour \notin MeshCells
        \/ blocks[neighbour] = AIR
        \/ blocks[neighbour] = WATER

\* the mask of layer d
FaceMask(blocks, face_id, d) ==
  LET ax == FaceAxes(face_id)
  IN [uv \in (0..(MeshDims[ax.u] - 1)) \X (0..(MeshDims[ax.v] - 1)) |->
        LET cell == FaceCoords(face_id, d, uv[1], uv[2])
        IN IF FaceExposed(blocks, face_id, cell) THEN blocks[cell] ELSE 0]

\* a width loop that stops at an empty mask cell only
RECURSIVE QuadWidth_anytype(_, _, _, _, _, _)
QuadWidth_anytype(mask, u, v, block_type, width, umax) ==
  IF u + width < umax /\ mask[<<u + width, v>>] # 0
  THEN QuadWidth_anytype(mask, u, v, block_type, width + 1, umax)
  ELSE width

\* while u + width < dims[u_axis] and mask[u + width, v] == block_type
RECURSIVE QuadWidth(_, _, _, _, _, _)
QuadWidth(mask, u, v, block_type, width, umax) ==
  IF u + width < umax /\ mask[<<u + width, v>>] = block_type
  THEN QuadWidth(mask, u, v, block_type, width + 1, umax)
  ELSE width

\* while v + height < dims[v_axis]: every cell of the next row matches
RECURSIVE QuadHeight(_, _, _, _, _, _, _)
QuadHeight(mask, u, v, block_type, width, height, vmax) ==
  IF /\ v + height < vmax
     /\ \A w \in 0..(width - 1) : mask[<<u + w, v + height>>] = block_type
  THEN QuadHeight(mask, u, v, block_type, width, height + 1, vmax)
  ELSE height

\* the v / u loops over one mask, appending to the quads emitted so far
RECURSIVE GreedyScan(_, _, _, _, _, _)
GreedyScan(mask, face_id, d, u, v, quads) ==
  LET ax == FaceAxes(face_id)
      umax == MeshDims[ax.u]
      vmax == MeshDims[ax.v]
  IN IF v >= vmax THEN quads
     ELSE IF u >= umax THEN GreedyScan(mask, face_id, d, 0, v + 1, quads)
     ELSE IF mask[<<u, v>>] # 0
     THEN LET block_type == mask[<<u, v>>]
              width == QuadWidth(mask, u, v, block_type, 1, umax)
              height == QuadHeight(mask, u, v, block_type, width, 1, vmax)
              cleared == [uv \in DOMAIN mask |->
                            IF /\ uv[1] \in u..(u + width - 1)
                               /\ uv[2] \in v..(v + height - 1)
                            THEN 0 ELSE mask[uv]]
              quad == [face_id |-> face_id, d |-> d, u |-> u, v |-> v,
                       width |-> width, height |-> height, block_type |-> block_type]
          IN GreedyScan(cleared, face_id, d, u + width, v, Append(quads, quad))
     ELSE GreedyScan(mask, face_id, d, u + 1, v, quads)

\* the face_id and d loops
RECURSIVE GreedyLayers(_, _, _, _)
GreedyLayers(blocks, face_id, d, quads) ==
  IF face_id > 5 THEN quads
  ELSE IF d >= MeshDims[FaceAxes(face_id).d] THEN GreedyLayers(blocks, face_id + 1, 0, quads)
  ELSE GreedyLayers(blocks, face_id, d + 1,
                    GreedyScan(FaceMask(blocks, face_id, d), face_id, d, 0, 0, quads))

\* what a call of build_chunk_mesh_fast can end with.  The arrays are
\* written without bounds checks: a quad past max_faces is written outside
\* them, after which the call either returns the slices of the arrays, which
\* hold the first max_faces quads, or the process dies.
build_chunk_mesh_outcomes(blocks) ==
  LET quads == GreedyLayers(blocks, 0, 0, <<>>)
  IN IF Len(quads) <= max_faces
     THEN {[quads |-> quads, crashed |-> FALSE]}
     ELSE {[quads |-> SubSeq(quads, 1, max_faces), crashed |-> FALSE],
           [quads |-> <<>>, crashed |-> TRUE]}

InitMesh ==
  /\ render_distance = ConstructedRenderDistance
  /\ \E blocks \in [MeshCells -> MeshBlockTypes] : returned = [blocks |-> blocks, mesh |-> <<>>]
  /\ ManagerInit

\* a call build_chunk_mesh_fast(blocks, chunk_x, chunk_z)
BuildChunkMesh ==
  /\ returned.mesh = <<>>
  /\ \E outcome \in build_chunk_mesh_outcomes(returned.blocks) :
        returned' = [returned EXCEPT !.mesh = <<outcome>>]
  /\ TerrainUnchanged

NextMesh == BuildChunkMesh

SpecMesh == InitMesh /\ [][NextMesh]_vars

\* the mask cells a quad covers
QuadCells(quad) ==
  {FaceCoords(quad.face_id, quad.d, u, v) :
     u \in quad.u..(quad.u + quad.width - 1), v \in quad.v..(quad.v + quad.height - 1)}

\* sum of width x height over the quads of one direction
RECURSIVE QuadArea(_, _)
QuadArea(quads, face_id) ==
  IF quads = <<>> THEN 0
  ELSE (IF Head(quads).face_id = face_id THEN Head(quads).width * Head(quads).height ELSE 0)
       + QuadArea(Tail(quads), face_id)

\* C23: for every block grid and each face direction the quads of
\* build_chunk_mesh_fast tile exactly the exposed faces: every exposed face
\* lies in exactly one quad, no quad covers a face that is not exposed, and
\* the quad areas add up to the per-voxel count of exposed faces.
C23_QuadsTileExposedFaces ==
  returned.mesh # <<>> =>
    LET mesh == returned.mesh[1]
        blocks == returned.blocks
    IN /\ ~mesh.crashed
       /\ \A face_id \in FaceIds :
             LET mine == {i \in DOMAIN mesh.quads : mesh.quads[i].face_id = face_id}
                 exposed == {c \in MeshCells : FaceExposed(blocks, face_id, c)}
             IN /\ \A c \in exposed :
                      Cardinality({i \in mine : c \in QuadCells(mesh.quads[i])}) = 1
                /\ \A i \in mine : QuadCells(mesh.quads[i]) \subseteq exposed
                /\ QuadArea(mesh.quads, face_id) = Cardinality(exposed)

\* C24: every quad of build_chunk_mesh_fast covers cells of one block type,
\* the type passed to get_greedy_quad.
C24_QuadsAreUniform ==
  returned.mesh # <<>> =>
    \A i \in DOMAIN returned.mesh[1].quads :
       LET quad == returned.mesh[1].quads[i]
       IN \A c \in QuadCells(quad) : returned.blocks[c] = quad.block_type

\* C24 witness: a grid holding grass and stone side by side was meshed and a
\* quad of more than one cell was emitted.
C24_Witness ==
  /\ returned.mesh # <<>>
  /\ \E a, b \in MeshCells : returned.blocks[a] = GRASS /\ returned.blocks[b] = STONE
  /\ \E i \in DOMAIN returned.mesh[1].quads :
        returned.mesh[1].quads[i].width * returned.mesh[1].quads[i].height > 1

(***************************************************************************)
(* OcclusionCuller.  Lengths are compared by their squares; fractions are   *)
(* thousandths (occlusion_threshold 0.95 is 950).  A culler is the record   *)
(* of its fields.                                                           *)
(***************************************************************************)
cache_max_age == 10
MaxCacheFrame == 11

\* camera of the calls: the centre of chunk (0,0)
CullerCamera == <<8, 128, 8>>
\* chunk whose occlusion is asked for, and the chunks that can be supplied
CullerTarget == <<5, 0>>
CullerChunks == {<<1, 0>>, <<2, 0>>, <<3, 0>>, <<5, 0>>}
\* the sets supplied as all_chunks
CullerChunkSets == {CullerChunks, {<<5, 0>>}, {<<3, 0>>, <<5, 0>>}}
\* arguments of set_threshold, in thousandths
CullerThresholds == {0, 500}
\* arguments of set_max_distance, in chunks
CullerDistances == {1, 20}

\* OcclusionCuller.__init__
NewCuller ==
  [visibility_cache |-> EmptyDict, cache_frame |-> 0, enable_occlusion_culling |-> TRUE,
   max_occlusion_distance |-> 12, occlusion_threshold |-> 950, min_chunk_distance |-> 3]

\* a clear_cache that keeps the memo
clear_cache_kept(oc) == [oc EXCEPT !.cache_frame = 0]

\* clear_cache
clear_cache(oc) == [oc EXCEPT !.visibility_cache = EmptyDict, !.cache_frame = 0]

\* get_chunk_center
get_chunk_center(chunk_x, chunk_z) ==
  <<chunk_x * CHUNK_SIZE + CHUNK_SIZE \div 2, CHUNK_HEIGHT \div 2,
    chunk_z * CHUNK_SIZE + CHUNK_SIZE \div 2>>

Sub3(a, b) == <<a[1] - b[1], a[2] - b[2], a[3] - b[3]>>
Dot3(a, b) == a[1] * b[1] + a[2] * b[2] + a[3] * b[3]
\* glm.length, squared
Length2(a) == Dot3(a, a)
\* a vector of the same direction: every component here is a multiple of
\* half a chunk
Shrink(a) == <<a[1] \div (CHUNK_SIZE \div 2), a[2] \div (CHUNK_SIZE \div 2), a[3] \div (CHUNK_SIZE \div 2)>>

\* distance_to_chunk, squared
distance_to_chunk2(camera_pos, chunk_x, chunk_z) ==
  Length2(Sub3(camera_pos, get_chunk_center(chunk_x, chunk_z)))

\* is_chunk_behind_other
is_chunk_behind_other(camera_pos, target_chunk, occluder_chunk) ==
  LET to_target == Sub3(get_chunk_center(target_chunk[1], target_chunk[2]), camera_pos)
      to_occluder == Sub3(get_chunk_center(occluder_chunk[1], occluder_chunk[2]), camera_pos)
      t == Shrink(to_target)
      o == Shrink(to_occluder)
  IN IF 100 * Length2(to_occluder) >= 64 * Length2(to_target) THEN FALSE
     ELSE /\ Dot3(t, o) > 0
          /\ 2500 * Dot3(t, o) * Dot3(t, o) > 2401 * Length2(t) * Length2(o)

\* calculate_occlusion_coverage without the cap on its result
calculate_occlusion_coverage_uncapped(oc, camera_pos, target_chunk, occluder_chunks) ==
  LET target_distance2 == distance_to_chunk2(camera_pos, target_chunk[1], target_chunk[2])
      valid == {c \in occluder_chunks :
                  /\ is_chunk_behind_other(camera_pos, target_chunk, c)
                  /\ 100 * distance_to_chunk2(camera_pos, c[1], c[2]) < 49 * target_distance2}
      total_coverage == 100 * Cardinality(valid)
  IN IF occluder_chunks = {} THEN 0
     ELSE IF target_distance2 < (oc.min_chunk_distance * CHUNK_SIZE) * (oc.min_chunk_distance * CHUNK_SIZE)
     THEN 0
     ELSE IF Cardinality(valid) < 2 THEN total_coverage \div 2 ELSE total_coverage

\* calculate_occlusion_coverage, in thousandths.  An occluder counted is
\* nearer than the target, so its angular size is at least the target's and
\* its contribution is min(ratio, 1.0) * 0.1 = 0.1.
calculate_occlusion_coverage(oc, camera_pos, target_chunk, occluder_chunks) ==
  LET target_distance2 == distance_to_chunk2(camera_pos, target_chunk[1], target_chunk[2])
      valid == {c \in occluder_chunks :
                  /\ is_chunk_behind_other(camera_pos, target_chunk, c)
                  /\ 100 * distance_to_chunk2(camera_pos, c[1], c[2]) < 49 * target_distance2}
      total_coverage == 100 * Cardinality(valid)
  IN IF occluder_chunks = {} THEN 0
     ELSE IF target_distance2 < (oc.min_chunk_distance * CHUNK_SIZE) * (oc.min_chunk_distance * CHUNK_SIZE)
     THEN 0
     ELSE Min2(IF Cardinality(valid) < 2 THEN total_coverage \div 2 ELSE total_coverage, 800)

\* cache_key: the camera position divided by 4 and truncated
cache_key(camera_pos, target_chunk) ==
  <<target_chunk, camera_pos[1] \div 4, camera_pos[2] \div 4, camera_pos[3] \div 4>>

\* the chunks is_chunk_occluded collects in occluder_chunks
potential_occluders(oc, camera_pos, target_chunk, all_chunks) ==
  LET target_distance2 == distance_to_chunk2(camera_pos, target_chunk[1], target_chunk[2])
      far == oc.max_occlusion_distance * CHUNK_SIZE
  IN {c \in all_chunks :
        /\ c # target_chunk
        /\ 100 * distance_to_chunk2(camera_pos, c[1], c[2]) < 64 * target_distance2
        /\ distance_to_chunk2(camera_pos, c[1], c[2]) < far * far}

\* the settings a memoized result depends on
CullerSettings(oc) ==
  <<oc.enable_occlusion_culling, oc.max_occlusion_distance, oc.occlusion_threshold,
    oc.min_chunk_distance>>

\* is_chunk_occluded: the culler after the call and the value returned; a
\* memo entry also records the settings it was computed under
is_chunk_occluded(oc, camera_pos, target_chunk, all_chunks) ==
  LET key == cache_key(camera_pos, target_chunk)
      target_distance2 == distance_to_chunk2(camera_pos, target_chunk[1], target_chunk[2])
      near == oc.min_chunk_distance * CHUNK_SIZE
      far == oc.max_occlusion_distance * CHUNK_SIZE
      occluder_chunks == potential_occluders(oc, camera_pos, target_chunk, all_chunks)
      coverage == calculate_occlusion_coverage(oc, camera_pos, target_chunk, occluder_chunks)
      cached(result) ==
        [oc |-> [oc EXCEPT !.visibility_cache =
                              DictPut(@, key, [result |-> result, frame |-> oc.cache_frame,
                                               settings |-> CullerSettings(oc)])],
         result |-> result]
  IN IF ~oc.enable_occlusion_culling THEN [oc |-> oc, result |-> FALSE]
     ELSE IF /\ key \in DOMAIN oc.visibility_cache
             /\ oc.cache_frame - oc.visibility_cache[key].frame < cache_max_age
     THEN [oc |-> oc, result |-> oc.visibility_cache[key].result]
     ELSE IF target_distance2 < near * near THEN cached(FALSE)
     ELSE IF target_distance2 > far * far THEN cached(FALSE)
     ELSE IF Cardinality(occluder_chunks) < 3 THEN cached(FALSE)
     ELSE cached(coverage > oc.occlusion_threshold)

\* the loop of filter_visible_chunks over a chunk list in the order given
RECURSIVE FilterLoop(_, _, _, _, _)
FilterLoop(oc, camera_pos, order, all_chunks, visible) ==
  IF order = <<>> THEN [oc |-> oc, visible |-> visible]
  ELSE LET r == is_chunk_occluded(oc, camera_pos, Head(order), all_chunks)
       IN FilterLoop(r.oc, camera_pos, Tail(order), all_chunks,
                     IF r.result THEN visible ELSE visible \cup {Head(order)})

\* filter_visible_chunks
filter_visible_chunks(oc, camera_pos, chunk_list) ==
  IF ~oc.enable_occlusion_culling
  THEN [oc |-> oc, visible |-> chunk_list]
  ELSE LET frame == oc.cache_frame + 1
           kept == {k \in DOMAIN oc.visibility_cache :
                      frame - oc.visibility_cache[k].frame < cache_max_age * 2}
           cleaned == IF frame % 60 = 0
                      THEN [k \in kept |-> oc.visibility_cache[k]]
                      ELSE oc.visibility_cache
       IN FilterLoop([oc EXCEPT !.cache_frame = frame, !.visibility_cache = cleaned],
                     camera_pos, ScanOrder(chunk_list), chunk_list, {})

\* set_threshold
set_threshold(oc, threshold) ==
  clear_cache([oc EXCEPT !.occlusion_threshold = Max2(100, Min2(threshold, 1000))])

\* set_max_distance
set_max_distance(oc, distance) ==
  clear_cache([oc EXCEPT !.max_occlusion_distance = Max2(2, Min2(distance, 16))])

\* set_conservative_mode
set_conservative_mode(oc, conservative) ==
  clear_cache(IF conservative
              THEN [oc EXCEPT !.occlusion_threshold = 990, !.min_chunk_distance = 5,
                              !.max_occlusion_distance = 8]
              ELSE [oc EXCEPT !.occlusion_threshold = 950, !.min_chunk_distance = 3,
                              !.max_occlusion_distance = 12])

\* toggle_occlusion_culling
toggle_occlusion_culling(oc) ==
  clear_cache([oc EXCEPT !.enable_occlusion_culling = ~@])

InitCuller ==
  /\ render_distance = ConstructedRenderDistance
  /\ returned = [oc |-> NewCuller, call |-> <<>>]
  /\ ManagerInit

\* a call is_chunk_occluded(camera_pos, target_chunk, all_chunks)
IsChunkOccluded(all_chunks) ==
  LET r == is_chunk_occluded(returned.oc, CullerCamera, CullerTarget, all_chunks)
  IN /\ returned' = [oc |-> r.oc,
                     call |-> <<[all_chunks |-> all_chunks, result |-> r.result,
                                 occluders |-> potential_occluders(returned.oc, CullerCamera,
                                                                   CullerTarget, all_chunks)]>>]
     /\ TerrainUnchanged

\* a call filter_visible_chunks(camera_pos, chunk_list)
FilterVisibleChunks(chunk_list) ==
  /\ returned.oc.cache_frame < MaxCacheFrame
  /\ returned' = [returned EXCEPT !.oc = filter_visible_chunks(@, CullerCamera, chunk_list).oc]
  /\ TerrainUnchanged

SetThreshold(threshold) ==
  /\ returned' = [returned EXCEPT !.oc = set_threshold(@, threshold)]
  /\ TerrainUnchanged

SetMaxDistance(distance) ==
  /\ returned' = [returned EXCEPT !.oc = set_max_distance(@, distance)]
  /\ TerrainUnchanged

SetConservativeMode(conservative) ==
  /\ returned' = [returned EXCEPT !.oc = set_conservative_mode(@, conservative)]
  /\ TerrainUnchanged

ToggleOcclusionCulling ==
  /\ returned' = [returned EXCEPT !.oc = toggle_occlusion_culling(@)]
  /\ TerrainUnchanged

NextCuller ==
  \/ \E all_chunks \in CullerChunkSets : IsChunkOccluded(all_chunks)
  \/ \E chunk_list \in CullerChunkSets : FilterVisibleChunks(chunk_list)
  \/ \E threshold \in CullerThresholds : SetThreshold(threshold)
  \/ \E distance \in CullerDistances : SetMaxDistance(distance)
  \/ \E conservative \in BOOLEAN : SetConservativeMode(conservative)
  \/ ToggleOcclusionCulling

SpecCuller == InitCuller /\ [][NextCuller]_vars

\* C25: in every reachable state of the culler, a call of is_chunk_occluded
\* with a chunk set none of which qualifies as an occluder of the target
\* returns False, whatever the threshold.
C25_NoOccluderMeansVisible ==
  \A i \in DOMAIN returned.call :
     returned.call[i].occluders = {} => ~returned.call[i].result

(***************************************************************************)
(* Frustum.  A plane is <<x, y, z, w>>; extract_planes divides a plane by   *)
(* the positive length of its normal, which changes no sign, so planes are  *)
(* kept with integer coefficients.                                          *)
(***************************************************************************)
FrustumExtent == 2
FarDistance == 3

\* Frustum.__init__: six planes glm.vec4(0)
NewPlanes == [i \in 1..6 |-> <<0, 0, 0, 0>>]

\* planes extract_planes leaves for a camera at (cx, 0, cz) looking down -z
\* with a right-angled field of view: left, right, bottom, top, near, far
ExtractedPlanes(cx, cz) ==
  <<<<1, 0, -1, cz - cx>>, <<-1, 0, -1, cz + cx>>, <<0, 1, -1, cz>>, <<0, -1, -1, cz>>,
    <<0, 0, -1, cz - 1>>, <<0, 0, 1, FarDistance - cz>>>>

FrustumPlaneSets == {NewPlanes} \cup {ExtractedPlanes(cx, cz) : cx \in {0, 1}, cz \in {0}}

\* signed distance of a point to a plane
PlaneDistance(plane, point) ==
  plane[1] * point[1] + plane[2] * point[2] + plane[3] * point[3] + plane[4]

\* the vertex nearest in the direction of the plane normal
negative_vertex(plane, min_point, max_point) ==
  <<IF plane[1] >= 0 THEN min_point[1] ELSE max_point[1],
    IF plane[2] >= 0 THEN min_point[2] ELSE max_point[2],
    IF plane[3] >= 0 THEN min_point[3] ELSE max_point[3]>>

\* positive_vertex
positive_vertex(plane, min_point, max_point) ==
  <<IF plane[1] >= 0 THEN max_point[1] ELSE min_point[1],
    IF plane[2] >= 0 THEN max_point[2] ELSE min_point[2],
    IF plane[3] >= 0 THEN max_point[3] ELSE min_point[3]>>

\* Frustum.is_aabb_inside: the loop returns False at the first plane whose
\* positive vertex is outside
is_aabb_inside(planes, min_point, max_point) ==
  \A i \in DOMAIN planes :
     ~(PlaneDistance(planes[i], positive_vertex(planes[i], min_point, max_point)) < 0)

\* Frustum.is_chunk_visible with the default chunk_size and chunk_height
is_chunk_visible(planes, chunk_x, chunk_z) ==
  is_aabb_inside(planes, <<chunk_x * CHUNK_SIZE, 0, chunk_z * CHUNK_SIZE>>,
                 <<chunk_x * CHUNK_SIZE + CHUNK_SIZE, CHUNK_HEIGHT, chunk_z * CHUNK_SIZE + CHUNK_SIZE>>)

\* boxes handed to is_aabb_inside: min_point below or at max_point on each axis
FrustumSpans == {s \in (-FrustumExtent..FrustumExtent) \X (-FrustumExtent..FrustumExtent) : s[1] <= s[2]}
FrustumBoxes ==
  {[min_point |-> <<sx[1], sy[1], -sz[2]>>, max_point |-> <<sx[2], sy[2], -sz[1]>>] :
     sx \in FrustumSpans, sy \in {<<-1, -1>>, <<-1, 1>>, <<1, 1>>},
     sz \in {s \in FrustumSpans : s[1] >= -1} \cup {<<FarDistance + 1, FarDistance + 2>>}}
FrustumChunks == {<<0, 0>>, <<0, -1>>, <<-1, -1>>, <<1, 0>>}

InitFrustum ==
  /\ render_distance = ConstructedRenderDistance
  /\ \E planes \in FrustumPlaneSets : returned = [planes |-> planes, call |-> <<>>]
  /\ ManagerInit

\* a call is_aabb_inside(min_point, max_point)
IsAabbInside(box) ==
  /\ returned.call = <<>>
  /\ returned' = [returned EXCEPT !.call =
                    <<[min_point |-> box.min_point, max_point |-> box.max_point,
                       result |-> is_aabb_inside(returned.planes, box.min_point, box.max_point)]>>]
  /\ TerrainUnchanged

\* a call is_chunk_visible(chunk_x, chunk_z)
IsChunkVisible(chunk_x, chunk_z) ==
  /\ returned.call = <<>>
  /\ returned' = [returned EXCEPT !.call =
                    <<[min_point |-> <<chunk_x * CHUNK_SIZE, 0, chunk_z * CHUNK_SIZE>>,
                       max_point |-> <<chunk_x * CHUNK_SIZE + CHUNK_SIZE, CHUNK_HEIGHT,
                                       chunk_z * CHUNK_SIZE + CHUNK_SIZE>>,
                       result |-> is_chunk_visible(returned.planes, chunk_x, chunk_z)]>>]
  /\ TerrainUnchanged

NextFrustum ==
  \/ \E box \in FrustumBoxes : IsAabbInside(box)
  \/ \E c \in FrustumChunks : IsChunkVisible(c[1], c[2])

SpecFrustum == InitFrustum /\ [][NextFrustum]_vars

\* the eight corners of a box
Corners(min_point, max_point) ==
  {<<x, y, z>> : x \in {min_point[1], max_point[1]}, y \in {min_point[2], max_point[2]},
                 z \in {min_point[3], max_point[3]}}

\* C26: is_aabb_inside returns False exactly when some plane has all eight
\* corners of the box at negative signed distance; a box with a corner
\* inside the frustum is never rejected and a box entirely beyond the far
\* plane is rejected.
C26_BoxTestIsConservative ==
  \A i \in DOMAIN returned.call :
     LET call == returned.call[i]
         corners == Corners(call.min_point, call.max_point)
         planes == returned.planes
     IN /\ ~call.result <=>
              \E k \in DOMAIN planes : \A c \in corners : PlaneDistance(planes[k], c) < 0
        /\ (\E c \in corners : \A k \in DOMAIN planes : PlaneDistance(planes[k], c) >= 0)
              => call.result
        /\ (\A c \in corners : PlaneDistance(planes[6], c) < 0) => ~call.result

\* C26 witness: a box that straddles a side plane of an extracted frustum,
\* with corners on both sides, was tested and accepted.
C26_Witness ==
  /\ returned.planes # NewPlanes
  /\ \E i \in DOMAIN returned.call :
        LET call == returned.call[i]
            corners == Corners(call.min_point, call.max_point)
        IN /\ call.result
           /\ \E c \in corners : PlaneDistance(returned.planes[1], c) < 0
           /\ \E c \in corners : PlaneDistance(returned.planes[1], c) > 0

(***************************************************************************)
(* Pre-generation                                                          *)
(***************************************************************************)
\* C27: when pregenerate_spawn_chunks(spawn_x, spawn_z) returns, the chunk
\* that contains the spawn position is active with its mesh built
\* (needs_update false) and at most as many chunks as the burst allows are
\* active; the burst of 20 generates the spawn chunk among at most 20
\* coordinates.
C27_SpawnChunkPregenerated ==
  (main_pc = "init" /\ ~initial_chunks_generated) =>
     /\ LET st == pregenerate_spawn_chunks(MainState, SpawnPosition, PregenCount)
        IN /\ SpawnChunk \in DOMAIN st.chunks
           /\ ~st.chunks[SpawnChunk].needs_update
           /\ Cardinality(DOMAIN st.chunks) <= PregenCount
     /\ LET order == pregen_coords(chunks_to_pregenerate, SpawnChunk[1], SpawnChunk[2])
        IN /\ \E i \in DOMAIN order : order[i] = SpawnChunk
           /\ Len(order) <= chunks_to_pregenerate

(***************************************************************************)
(* Mesh currency                                                           *)
(***************************************************************************)
\* C28: in every reachable state an active chunk whose needs_update is
\* false and whose grid has a solid cell has a buffer holding the mesh of
\* its current grid, and valid cached vertices are those of the current
\* grid: a mesh result built before an edit does not clear the flag the edit
\* set.
C28_CleanChunkHasCurrentMesh ==
  \A c \in DOMAIN chunks :
     LET chunk == chunks[c]
         mesh == build_chunk_mesh_fast(chunk.blocks)
     IN (~chunk.needs_update /\ MeshLen(mesh) > 0) =>
           /\ chunk.vao # 0
           /\ gpu[chunk.vao].mesh = mesh
           /\ chunk.mesh_cache_valid => chunk.cached_vertices = <<mesh>>

(***************************************************************************)
(* Unload processing                                                       *)
(***************************************************************************)
\* C29: a drain step never evicts a coordinate that is within render
\* distance of last_player_chunk when the unload is processed (a stale or
\* duplicate unload request of a coordinate back in range has no effect).
C29_DrainKeepsChunksInRange ==
  (main_pc = "running" /\ last_player_chunk # <<>>) =>
     LET st == process_completed_chunks(MainState)
         centre == last_player_chunk[1]
     IN \A c \in (DOMAIN chunks) \ (DOMAIN st.chunks) :
           c \notin get_chunks_in_range(centre[1], centre[2])

\* C30: the unload loop of one drain step, for every queued coordinate that
\* is active, stores the snapshot of its grid and flags in the eviction
\* cache, releases its buffer if it has one, and removes it from the active
\* map and the loaded set, after which request_chunk_load for it succeeds;
\* if no queued coordinate is active the loop changes nothing but the queue.
C30_UnloadIsComplete ==
  main_pc = "running" =>
     LET st == DrainUnloads(MainState, 0)
         queued == {chunks_to_unload[i] : i \in DOMAIN chunks_to_unload}
     IN /\ \A c \in queued \cap DOMAIN chunks :
              /\ c \in DOMAIN st.chunk_cache
              /\ st.chunk_cache[c] = save_chunk_data(chunks[c])
              /\ chunks[c].vao # 0 => st.gpu[chunks[c].vao].releases = gpu[chunks[c].vao].releases + 1
              /\ c \notin DOMAIN st.chunks
              /\ c \notin st.loaded_chunks
              /\ request_chunk_load(st, c).chunk_queue =
                    Append(st.chunk_queue, [type |-> "load", coords |-> c])
              /\ c \in request_chunk_load(st, c).loaded_chunks
        /\ queued \cap DOMAIN chunks = {} => st = [MainState EXCEPT !.chunks_to_unload = <<>>]

\* C30 witness: an unload has been processed before (its snapshot is in the
\* eviction cache) and the unload of an active chunk that has a buffer is
\* queued for the next drain step.
C30_Witness ==
  /\ main_pc = "running"
  /\ DOMAIN chunk_cache # {}
  /\ \E i \in DOMAIN chunks_to_unload :
        /\ chunks_to_unload[i] \in DOMAIN chunks
        /\ chunks[chunks_to_unload[i]].vao # 0

SameChunkPositions == PlayerPositions \cup {<<p[1] + 4, p[2] - 5>> : p \in PlayerPositions}

\* C32: an update() call whose position lies in the chunk of
\* last_player_chunk enqueues no load and no unload operation, adds nothing
\* to loaded_chunks and does not purge mesh_build_queue, whatever the range
\* and the loaded set hold: the fields after it are those after the drain
\* step with the new player_position.
C32_SameChunkUpdateOnlyDrains ==
  main_pc = "running" =>
    \A pos \in SameChunkPositions :
       <<world_to_chunk_coords(pos)>> = last_player_chunk =>
          LET cur == world_to_chunk_coords(pos)
              drained == process_completed_chunks([MainState EXCEPT !.player_position = pos])
              range == get_chunks_in_range(cur[1], cur[2])
          IN \A loadOrder \in Orders(range), unloadOrder \in Orders(drained.loaded_chunks \ range) :
                LET st == UpdateResult(pos, loadOrder, unloadOrder)
                IN /\ st.chunk_queue = chunk_queue
                   /\ st.loaded_chunks \subseteq loaded_chunks
                   /\ st.mesh_build_queue = drained.mesh_build_queue
                   /\ st.player_position = pos
                   /\ st = drained

\* C32 witness: the observer is in the chunk of last_player_chunk while that
\* chunk is neither active nor pending, a coordinate out of range is still
\* loaded and a result waits for the drain step.
C32_Witness ==
  /\ main_pc = "running"
  /\ last_player_chunk = <<world_to_chunk_coords(player_position)>>
  /\ last_player_chunk[1] \notin loaded_chunks
  /\ loaded_chunks # {}
  /\ completed_chunks # <<>> \/ completed_meshes # <<>> \/ chunks_to_unload # <<>>

(***************************************************************************)
(* Empty meshes                                                            *)
(***************************************************************************)
\* C33: whenever a mesh rebuild of an active chunk yields zero-length vertex
\* output, applied by build_mesh (the grid has no solid cell) or by the
\* drain step (a completed mesh without vertices), the chunk afterwards
\* draws nothing: its vertex_count is 0 and it holds no buffer of an earlier
\* non-empty mesh.
C33_EmptyMeshDrawsNothing ==
  main_pc = "running" =>
    /\ \A c \in DOMAIN chunks :
          (chunks[c].needs_update /\ MeshLen(build_chunk_mesh_fast(chunks[c].blocks)) = 0) =>
             LET r == build_mesh(MainState, c, chunks[c])
             IN /\ r.chunk.vertex_count = 0
                /\ r.chunk.vao # 0 => MeshLen(r.st.gpu[r.chunk.vao].mesh) = 0
    /\ \A i \in DOMAIN completed_meshes :
          LET m == completed_meshes[i]
          IN (m.coords \in DOMAIN chunks /\ MeshLen(m.vertices) = 0) =>
                LET st == ApplyMeshResult(MainState, m)
                    chunk == st.chunks[m.coords]
                IN /\ chunk.vertex_count = 0
                   /\ chunk.vao # 0 => MeshLen(st.gpu[chunk.vao].mesh) = 0

(***************************************************************************)
(* Water and trees                                                         *)
(***************************************************************************)
\* C34: in every generated chunk, for every column whose terrain height h
\* is below the water line, every cell with h < y <= water line holds Water
\* and every cell above both the terrain height and the water line holds
\* Air, unless a tree overwrote it.
C34_WaterFillsToWaterLine ==
  \A r \in DOMAIN TerrainRuns :
     returned.at[r] = TerrainSize =>
        \A lx \in 0..(TerrainSize - 1) :
           LET h == get_terrain_height(returned.noise, TerrainRuns[r] * TerrainSize + lx)
           IN h <= WATER_LINE =>
                \A y \in 0..(TerrainHeight - 1) :
                   /\ (h < y /\ y <= WATER_LINE) => returned.grids[r][<<lx, y>>] = WATER
                   /\ (h < y /\ y > WATER_LINE) => returned.grids[r][<<lx, y>>] \in {AIR, LEAVES, WOOD}

\* the cells a tree rooted at (local_x, local_y) consists of: the dirt, the
\* trunk, the top, the leaf layer two cells each way and the lateral
\* extension three cells away on the side the hash selects
TreeFootprint(noise, local_x, local_y) ==
  {<<local_x, local_y>>, <<local_x, local_y + 1>>, <<local_x, local_y + 2>>}
  \cup {<<local_x + ix, local_y + 1>> : ix \in {-2, -1, 1, 2}}
  \cup {<<local_x + (IF fast_rand(noise, local_x) = 0 THEN 3 ELSE -3), local_y + 1>>}

\* C35: every call of generate_tree_fast the generator has made either
\* wrote no block, or every cell of the tree's footprint is inside the chunk
\* and was written; a tree whose footprint crosses a chunk edge is skipped,
\* never clipped, and no write is outside the chunk.
C35_TreeIsCompleteOrAbsent ==
  \A r \in DOMAIN TerrainRuns :
     \A lx \in 0..(returned.at[r] - 1) :
        LET wx == TerrainRuns[r] * TerrainSize + lx
            h == get_terrain_height(returned.noise, wx)
            writes == tree_writes(returned.noise, lx, h)
            footprint == TreeFootprint(returned.noise, lx, h)
        IN (/\ get_block_type(returned.noise, wx, h, h) = GRASS
            /\ should_place_tree(returned.noise, wx, h, GRASS)) =>
              /\ \A w \in writes : w[1] \in TerrainCells
              /\ \/ writes = {}
                 \/ /\ footprint \subseteq TerrainCells
                    /\ {w[1] : w \in writes} = footprint
              /\ ~(footprint \subseteq TerrainCells) => writes = {}

(***************************************************************************)
(* Culling settings                                                        *)
(***************************************************************************)
\* C36: every change of a culling setting (toggle_occlusion_culling,
\* set_conservative_mode, set_threshold, set_max_distance) leaves the
\* visibility memo empty, so every memoized result is_chunk_occluded can
\* return was computed under the current settings.
C36_SettingChangeClearsMemo ==
  /\ toggle_occlusion_culling(returned.oc).visibility_cache = EmptyDict
  /\ \A conservative \in BOOLEAN :
        set_conservative_mode(returned.oc, conservative).visibility_cache = EmptyDict
  /\ \A threshold \in CullerThresholds :
        set_threshold(returned.oc, threshold).visibility_cache = EmptyDict
  /\ \A distance \in CullerDistances :
        set_max_distance(returned.oc, distance).visibility_cache = EmptyDict
  /\ \A key \in DOMAIN returned.oc.visibility_cache :
        returned.oc.visibility_cache[key].settings = CullerSettings(returned.oc)

\* C36 witness: a result was memoized after the settings were changed to
\* values no constructor or mode sets, and the last call returned it.
C36_Witness ==
  /\ returned.oc.visibility_cache # EmptyDict
  /\ returned.oc.max_occlusion_distance = 16
  /\ returned.oc.occlusion_threshold = 100
  /\ returned.call # <<>>
  /\ returned.call[1].result

(***************************************************************************)
(* Built-in thresholds                                                     *)
(***************************************************************************)
\* a target eleven chunks from the camera behind thirteen chunks that all
\* count as its occluders, and the cameras of the calls checked
CoverTarget == <<11, 0>>
CoverChunks ==
  {<<k, 0>> : k \in 1..7} \cup {<<k, 1>> : k \in 5..7} \cup {<<k, -1>> : k \in 5..7}
    \cup {CoverTarget}
CoverCameras == {CullerCamera, <<9, 128, 8>>}

\* C37: with the occlusion threshold at 0.95 or 0.99, is_chunk_occluded
\* returns False for every camera position, target and chunk set (the
\* accumulated coverage is at most 0.8), and filter_visible_chunks returns
\* its whole input.
C37_BuiltInThresholdCullsNothing ==
  returned.oc.occlusion_threshold \in {950, 990} =>
     \A camera_pos \in CoverCameras :
        /\ ~is_chunk_occluded(returned.oc, camera_pos, CoverTarget, CoverChunks).result
        /\ \A all_chunks \in CullerChunkSets :
              /\ \A target_chunk \in all_chunks :
                    ~is_chunk_occluded(returned.oc, camera_pos, target_chunk, all_chunks).result
              /\ filter_visible_chunks(returned.oc, camera_pos, all_chunks).visible = all_chunks

\* C37 witness: culling is enabled with the threshold of the normal mode,
\* the target has thirteen chunks that count towards its coverage, and the
\* last call, with three potential occluders of its target, returned False.
C37_Witness ==
  /\ returned.oc.enable_occlusion_culling
  /\ returned.oc.occlusion_threshold = 950
  /\ returned.oc.max_occlusion_distance = 12
  /\ Cardinality(potential_occluders(returned.oc, CullerCamera, CoverTarget, CoverChunks)) = 13
  /\ calculate_occlusion_coverage(returned.oc, CullerCamera, CoverTarget, CoverChunks) = 800
  /\ returned.call # <<>>
  /\ Cardinality(returned.call[1].occluders) = 3
  /\ ~returned.call[1].result

(***************************************************************************)
(* Lifetime of GPU buffers                                                 *)
(***************************************************************************)
\* C38: across pre-generation, load completion, mesh application, edit,
\* unload and cleanup, every buffer create_vao returned is released at most
\* once; it is unreleased exactly while a chunk of the active map holds it
\* (so it is released no later than when its chunk leaves the map, and once
\* cleanup has run every buffer is released); no two chunks hold the same
\* buffer and no active chunk holds, and so draws or releases again, a
\* released buffer.
C38_BuffersReleasedExactlyOnce ==
  /\ \A id \in DOMAIN gpu :
        /\ gpu[id].releases <= 1
        /\ gpu[id].releases = 0 <=> \E c \in DOMAIN chunks : chunks[c].vao = id
  /\ \A c \in DOMAIN chunks :
        /\ chunks[c].vao # 0 => (chunks[c].vao \in DOMAIN gpu /\ gpu[chunks[c].vao].releases = 0)
        /\ \A d \in DOMAIN chunks : (d # c /\ chunks[c].vao # 0) => chunks[d].vao # chunks[c].vao
  /\ main_pc = "done" => \A id \in DOMAIN gpu : gpu[id].releases = 1

\* C38 witness: one buffer was released when its chunk was unloaded, and
\* another is held by an active chunk.
C38_Witness ==
  /\ main_pc = "running"
  /\ \E id \in DOMAIN gpu :
        /\ gpu[id].releases = 1
        /\ gpu[id].coords \in DOMAIN evicted
        /\ gpu[id].coords \notin DOMAIN chunks
  /\ \E c \in DOMAIN chunks : chunks[c].vao # 0

(***************************************************************************)
(* clear_distant_mesh_requests step by step, next to the worker.  The       *)
(* record holds the PriorityQueue object the purge drains (old), the one    *)
(* it fills (new), which of them self.mesh_build_queue refers to (ref), the *)
(* object the worker's get() was called on (worker) and the requests the    *)
(* worker took (taken).                                                     *)
(***************************************************************************)
\* largest number of requests queued when the purge starts
MaxPurgeRequests == 3

\* the observer moved from PurgeOldPosition to PurgePosition
PurgeOldPosition == <<40, 8>>
PurgePosition == <<8, 8>>
\* coordinates of the queued requests: two inside the square of render
\* distance 1 around the observer's chunk, two outside
PurgeCoords == {<<0, 0>>, <<1, 1>>, <<2, 0>>, <<3, 0>>}

\* "if chunk_dx <= self.render_distance and chunk_dz <= self.render_distance"
purge_keeps(c, pos) ==
  LET cur == world_to_chunk_coords(pos)
  IN Abs(c[1] - cur[1]) <= render_distance /\ Abs(c[2] - cur[2]) <= render_distance

\* the loop of clear_distant_mesh_requests ends on the first item
purge_done_early(q) == TRUE

\* "except queue.Empty: break": the loop ends when get_nowait finds the
\* queue empty
purge_done(q) == q = {}

InitPurge ==
  /\ render_distance = NearRenderDistance
  /\ \E S \in SUBSET PurgeCoords :
        /\ S # {}
        /\ Cardinality(S) <= MaxPurgeRequests
        /\ \E order \in Orders(S) :
              LET initial == {[priority |-> calculate_chunk_priority(order[n], PurgeOldPosition),
                               counter |-> n, coords |-> order[n], live |-> TRUE,
                               blocks |-> [i \in GridCells |-> AIR]] : n \in DOMAIN order}
              IN returned = [initial |-> initial, old |-> initial, new |-> {}, ref |-> "old",
                             purge |-> "drain", worker |-> "idle", taken |-> <<>>]
  /\ ManagerInit

\* one pass of the purge loop: get_nowait on the old queue, then put on
\* new_queue with the recomputed priority if the coordinate is kept
PurgeGet ==
  /\ returned.purge = "drain"
  /\ ~purge_done(returned.old)
  /\ LET r == MeshQueueHead(returned.old)
     IN returned' = [returned EXCEPT
                       !.old = @ \ {r},
                       !.new = IF purge_keeps(r.coords, PurgePosition)
                               THEN @ \cup {[r EXCEPT !.priority =
                                               calculate_chunk_priority(r.coords, PurgePosition)]}
                               ELSE @]
  /\ TerrainUnchanged

\* the loop ends and "self.mesh_build_queue = new_queue" is executed
PurgeSwap ==
  /\ returned.purge = "drain"
  /\ purge_done(returned.old)
  /\ returned' = [returned EXCEPT !.ref = "new", !.purge = "done"]
  /\ TerrainUnchanged

\* the worker evaluates self.mesh_build_queue and calls get(timeout=0.01)
\* on that object
PurgeWorkerPoll ==
  /\ returned.worker = "idle"
  /\ returned' = [returned EXCEPT !.worker = returned.ref]
  /\ TerrainUnchanged

\* the worker's get() returns the smallest request of its queue object, or
\* raises queue.Empty after the timeout
PurgeWorkerGet ==
  /\ returned.worker # "idle"
  /\ LET q == returned[returned.worker]
     IN IF q = {}
        THEN returned' = [returned EXCEPT !.worker = "idle"]
        ELSE LET r == MeshQueueHead(q)
             IN returned' = [returned EXCEPT ![returned.worker] = q \ {r},
                                             !.taken = Append(@, r),
                                             !.worker = "idle"]
  /\ TerrainUnchanged

NextPurge == PurgeGet \/ PurgeSwap \/ PurgeWorkerPoll \/ PurgeWorkerGet

SpecPurge == InitPurge /\ [][NextPurge]_vars

\* how often the request with counter n is in the queue object q / was
\* taken by the worker
TimesQueued(q, n) == Cardinality({r \in q : r.counter = n})
TimesTaken(n) == Cardinality({i \in DOMAIN returned.taken : returned.taken[i].counter = n})

\* C39: when clear_distant_mesh_requests runs while the worker polls the
\* queue, every request queued before the purge whose coordinate is kept is,
\* while the purge runs, in exactly one of the old queue, the new queue and
\* the worker's hands, and once the purge has replaced the queue it is
\* either in the new mesh_build_queue exactly once, with the priority of the
\* new position, or was taken by the worker exactly once; the worker takes
\* no request twice.
C39_PurgeLosesNoKeptRequest ==
  /\ \A r \in returned.initial :
        /\ TimesTaken(r.counter) <= 1
        /\ purge_keeps(r.coords, PurgePosition) =>
              IF returned.purge = "drain"
              THEN TimesQueued(returned.old, r.counter) + TimesQueued(returned.new, r.counter)
                      + TimesTaken(r.counter) = 1
              ELSE TimesQueued(returned.new, r.counter) + TimesTaken(r.counter) = 1
  /\ returned.purge = "done" =>
        \A q \in returned.new :
           q \in clear_distant_mesh_requests(
                    [MainState EXCEPT !.mesh_build_queue = returned.initial,
                                      !.player_position = PurgePosition]).mesh_build_queue

\* C39 witness: the purge is over; the worker took one kept request from
\* the old queue while the purge was draining it, and another kept request
\* is in the new queue.
C39_Witness ==
  /\ returned.purge = "done"
  /\ returned.ref = "new"
  /\ \E i \in DOMAIN returned.taken :
        /\ purge_keeps(returned.taken[i].coords, PurgePosition)
        /\ returned.taken[i] \in returned.initial
  /\ \E q \in returned.new : TimesTaken(q.counter) = 0

(***************************************************************************)
(* Capacity of the mesh buffers                                            *)
(***************************************************************************)
\* C40: for every block grid the number of quads build_chunk_mesh_fast
\* emits is at most max_faces, the capacity of its preallocated vertex and
\* index arrays, so no write is outside them and the call returns every
\* quad.
C40_QuadsFitTheBuffers ==
  LET quads == GreedyLayers(returned.blocks, 0, 0, <<>>)
  IN /\ Len(quads) <= max_faces
     /\ \A i \in DOMAIN returned.mesh :
           /\ ~returned.mesh[i].crashed
           /\ returned.mesh[i].quads = quads

====
